---- MODULE Spec2Model ----
(***************************************************************************)
(* Model of Tools/fo4_esp_parser.py: the ESP/ESM plugin decoder            *)
(* (BinaryReader, ESPRecord, ESPParser, analyze_overrides).                *)
(*                                                                         *)
(* The input buffer is a sequence of bytes 0..255 and every decoder        *)
(* operator works on those bytes.  Integers are TLC integers (signed 32    *)
(* bit), so every 32-bit field of the enumerated inputs has its high byte  *)
(* below 0x80.  Text is decoded to TLA+ strings for ASCII bytes.           *)
(***************************************************************************)
EXTENDS Integers, Sequences, FiniteSets, Bags, TLC

VARIABLES
    input,              \* the fields the payload under test was built from
    data,               \* parse(): the bytes read from the file (immutable)
    filter_types,       \* parse(filter_types): None or a set of type labels
    filename,           \* ESPParser.filename
    pos,                \* reader.pos of the main BinaryReader
    stack,              \* active _parse_group calls: [start, size, end_pos]
    pc,                 \* position of the program
    hdr,                \* TES4 fields: version, num_records, next_object_id,
                        \*   author, description, is_esm, is_esl, is_localized
    masters,            \* ESPParser.masters
    records,            \* ESPParser.records, an insertion-ordered dict
    records_by_formid,  \* ESPParser.records_by_formid
    group_count,        \* ESPParser.group_count
    record_count,       \* ESPParser.record_count
    compressed_count,   \* ESPParser.compressed_count
    type_counts,        \* ESPParser.type_counts
    ret,                \* what the last _parse_record call returned
    result,             \* value returned by the last post-parse query
    other,              \* a second ESPParser instance, decoding another file
    vanilla_keywords    \* the module-level dict VANILLA_WEAPON_KEYWORDS

vars == <<input, data, filter_types, filename, pos, stack, pc, hdr, masters, records,
          records_by_formid, group_count, record_count, compressed_count,
          type_counts, ret, result, other, vanilla_keywords>>

(***************************************************************************)
(* Bounds of the model.                                                    *)
(***************************************************************************)
MaxItems == 2       \* top-level items (GRUPs or stray records) per file
MaxMasters == 2     \* MAST fields in the TES4 header
MaxFields == 2      \* fields per payload in the subrecord-splitting inputs
MaxSteps == 40      \* steps of a whole decode computed by RunFrom

(***************************************************************************)
(* Program constants.                                                      *)
(***************************************************************************)
FLAG_ESM == 1
FLAG_LOCALIZED == 64
FLAG_ESL == 512
FLAG_COMPRESSED == 262144
HeaderSize == 24

\* F(e) with e evaluated once, before F is applied to it
Strict(F(_), e) == CHOOSE r \in {F(v) : v \in {e}} : TRUE

Min(a, b) == IF a <= b THEN a ELSE b
Max(a, b) == IF a >= b THEN a ELSE b

\* flags & mask, for a one-bit mask
HasFlag(flags, mask) == (flags \div mask) % 2 = 1

(***************************************************************************)
(* Bytes and struct.                                                       *)
(***************************************************************************)
\* Python slicing d[a:b] for 0 <= a
Slice(d, a, b) == SubSeq(d, a + 1, Min(b, Len(d)))

\* struct.unpack('<H', b) and struct.unpack('<I', b): b has the exact length
Unpack16(b) == b[1] + 256 * b[2]
Unpack32(b) == b[1] + 256 * b[2] + 65536 * b[3] + 16777216 * b[4]

\* struct.unpack_from(fmt, data, p) raises struct.error unless n bytes follow p
CanUnpack(d, p, n) == p + n <= Len(d)

\* bytes.rstrip(b'\x00')
RECURSIVE RStripNul(_)
RStripNul(b) ==
    IF Len(b) > 0 /\ b[Len(b)] = 0 THEN RStripNul(SubSeq(b, 1, Len(b) - 1)) ELSE b

(***************************************************************************)
(* Text.                                                                   *)
(***************************************************************************)
HexDigitsLower == <<"0","1","2","3","4","5","6","7","8","9","a","b","c","d","e","f">>
HexDigitsUpper == <<"0","1","2","3","4","5","6","7","8","9","A","B","C","D","E","F">>

\* the printable ASCII characters 32..126
Printable ==
    <<" ","!","\"","#","$","%","&","'","(",")","*","+",",","-",".","/",
      "0","1","2","3","4","5","6","7","8","9",":",";","<","=",">","?",
      "@","A","B","C","D","E","F","G","H","I","J","K","L","M","N","O",
      "P","Q","R","S","T","U","V","W","X","Y","Z","[","\\","]","^","_",
      "\\x60","a","b","c","d","e","f","g","h","i","j","k","l","m","n","o",
      "p","q","r","s","t","u","v","w","x","y","z","{","|","}","~">>

\* one decoded ASCII character; control characters are written \xNN
Chr(b) ==
    IF b >= 32 /\ b <= 126 THEN Printable[b - 31]
    ELSE "\\x" \o HexDigitsLower[(b \div 16) + 1] \o HexDigitsLower[(b % 16) + 1]

IsAscii(b) == \A i \in 1..Len(b) : b[i] < 128

RECURSIVE StrOf(_)
StrOf(b) == IF b = <<>> THEN "" ELSE Chr(b[1]) \o StrOf(Tail(b))

\* bytes.hex()
RECURSIVE HexOf(_)
HexOf(b) ==
    IF b = <<>> THEN ""
    ELSE HexDigitsLower[(b[1] \div 16) + 1] \o HexDigitsLower[(b[1] % 16) + 1]
         \o HexOf(Tail(b))

\* f'{n:0wX}'
RECURSIVE FormatHex(_, _)
FormatHex(n, w) ==
    IF w <= 1 /\ n < 16 THEN HexDigitsUpper[n + 1]
    ELSE FormatHex(n \div 16, w - 1) \o HexDigitsUpper[(n % 16) + 1]

\* raw.decode('ascii'), falling back to raw.hex()
DecodeSig(raw) == IF IsAscii(raw) THEN StrOf(raw) ELSE HexOf(raw)

\* raw.decode('utf-8'), falling back to cp1252 and then to raw.hex().  ASCII
\* bytes decode to themselves; a payload with a byte >= 0x80 is outside the
\* inputs of this model and is shown tagged with its hex dump.
DecodeText(raw) == IF IsAscii(raw) THEN StrOf(raw) ELSE "?" \o HexOf(raw)

(***************************************************************************)
(* zlib.decompress.  The container (CMF/FLG header, Adler-32 trailer) and  *)
(* stored DEFLATE blocks are decoded as zlib decodes them; Huffman-coded   *)
(* blocks are outside the inputs of this model.  bufsize is only the       *)
(* initial size of the output buffer and does not limit the output.        *)
(***************************************************************************)
ZlibError == [ok |-> FALSE, out |-> <<>>]

RECURSIVE AdlerAB(_, _, _)
AdlerAB(b, s1, s2) ==
    IF b = <<>> THEN <<s1, s2>>
    ELSE AdlerAB(Tail(b), (s1 + b[1]) % 65521, (s2 + s1 + b[1]) % 65521)

\* the Adler-32 checksum as its four big-endian bytes
Adler32(b) ==
    Strict(LAMBDA ab : <<ab[2] \div 256, ab[2] % 256, ab[1] \div 256, ab[1] % 256>>,
           AdlerAB(b, 1, 0))

RECURSIVE InflateStored(_, _, _)
InflateStored(b, i, out) ==
    IF i + 1 > Len(b) THEN [ok |-> FALSE, out |-> out, next |-> i]
    ELSE
      LET bfinal == b[i + 1] % 2
          btype == (b[i + 1] \div 2) % 4
      IN  IF btype # 0 \/ i + 5 > Len(b) THEN [ok |-> FALSE, out |-> out, next |-> i]
          ELSE
            LET len == Unpack16(Slice(b, i + 1, i + 3))
                nlen == Unpack16(Slice(b, i + 3, i + 5))
                nxt == i + 5 + len
            IN  IF len + nlen # 65535 \/ nxt > Len(b)
                THEN [ok |-> FALSE, out |-> out, next |-> i]
                ELSE IF bfinal = 1
                THEN [ok |-> TRUE, out |-> out \o Slice(b, i + 5, nxt), next |-> nxt]
                ELSE InflateStored(b, nxt, out \o Slice(b, i + 5, nxt))

ZlibDecompress(b, bufsize) ==
    IF Len(b) < 2 THEN ZlibError
    ELSE IF b[1] % 16 # 8 \/ b[1] \div 16 > 7 \/ (b[1] * 256 + b[2]) % 31 # 0
            \/ (b[2] \div 32) % 2 = 1
    THEN ZlibError
    ELSE
      Strict(LAMBDA r :
               IF ~r.ok THEN ZlibError
               ELSE IF Slice(b, r.next, r.next + 4) # Adler32(r.out) THEN ZlibError
               ELSE [ok |-> TRUE, out |-> r.out],
             InflateStored(b, 2, <<>>))

(***************************************************************************)
(* ESPRecord.                                                              *)
(***************************************************************************)
\* ESPRecord.__init__ with the envelope fields _parse_record assigns
NewRecord(sig, data_size, flags, form_id, timestamp, version_info) ==
    [type |-> sig, data_size |-> data_size, flags |-> flags, form_id |-> form_id,
     timestamp |-> timestamp, version_info |-> version_info,
     subrecords |-> <<>>, is_compressed |-> HasFlag(flags, FLAG_COMPRESSED),
     editor_id |-> "", full_name |-> "", keywords |-> <<>>, raw_data |-> <<>>]

master_index(rec) == (rec.form_id \div 16777216) % 256
local_id(rec) == rec.form_id % 16777216
form_id_hex(rec) == FormatHex(rec.form_id, 8)

\* the KWDA loop: one identity per complete 4-byte chunk
RECURSIVE KeywordArray(_, _)
KeywordArray(sub_data, i) ==
    IF i + 4 <= Len(sub_data)
    THEN <<Unpack32(Slice(sub_data, i, i + 4))>> \o KeywordArray(sub_data, i + 4)
    ELSE <<>>

\* raw_data is a dict: a sequence of [key, list, val] entries in insertion
\* order; list says whether val is a list of payloads or one payload
RawHas(raw, k) == \E i \in 1..Len(raw) : raw[i].key = k
RawIndex(raw, k) == CHOOSE i \in 1..Len(raw) : raw[i].key = k
\* variant: a type met again replaces the pair kept for it by a new pair
RawStore_PairOnly(raw, k, sub_data) ==
    IF ~RawHas(raw, k) THEN Append(raw, [key |-> k, list |-> FALSE, val |-> sub_data])
    ELSE LET i == RawIndex(raw, k)
         IN  [raw EXCEPT ![i] = [key |-> k, list |-> TRUE,
                                 val |-> <<IF raw[i].list THEN raw[i].val[Len(raw[i].val)]
                                           ELSE raw[i].val, sub_data>>]]

RawStore(raw, k, sub_data) ==
    IF ~RawHas(raw, k) THEN Append(raw, [key |-> k, list |-> FALSE, val |-> sub_data])
    ELSE LET i == RawIndex(raw, k)
         IN  IF raw[i].list
             THEN [raw EXCEPT ![i].val = Append(@, sub_data)]
             ELSE [raw EXCEPT ![i] = [key |-> k, list |-> TRUE,
                                      val |-> <<raw[i].val, sub_data>>]]

\* one iteration of the loop of parse_subrecords; err: struct.error raised
ParseOneSubrecord(st, sub) ==
    LET rec == st.rec
        named ==
          IF sub.type = "EDID"
          THEN [err |-> FALSE,
                rec |-> [rec EXCEPT !.editor_id = DecodeText(RStripNul(sub.data))]]
          ELSE IF sub.type = "FULL"
          THEN [err |-> FALSE,
                rec |-> [rec EXCEPT !.full_name =
                           IF Len(sub.data) = 4
                           THEN "[LSTRING:" \o FormatHex(Unpack32(sub.data), 8) \o "]"
                           ELSE DecodeText(RStripNul(sub.data))]]
          ELSE IF sub.type = "KSIZ"
          THEN [err |-> Len(sub.data) > 4, rec |-> rec]
          ELSE IF sub.type = "KWDA"
          THEN [err |-> FALSE,
                rec |-> [rec EXCEPT !.keywords = KeywordArray(sub.data, 0)]]
          ELSE [err |-> FALSE, rec |-> rec]
    IN  IF st.err \/ named.err THEN [err |-> TRUE, rec |-> named.rec]
        ELSE [err |-> FALSE,
              rec |-> [named.rec EXCEPT
                         !.raw_data = RawStore(@, sub.type, sub.data)]]

RECURSIVE ParseSubrecordsFrom(_, _)
ParseSubrecordsFrom(st, i) ==
    IF st.err \/ i > Len(st.rec.subrecords) THEN st
    ELSE Strict(LAMBDA nxt : ParseSubrecordsFrom(nxt, i + 1),
                ParseOneSubrecord(st, st.rec.subrecords[i]))

\* ESPRecord.parse_subrecords
parse_subrecords(rec) ==
    Strict(LAMBDA st : ParseSubrecordsFrom(st, 1), [err |-> FALSE, rec |-> rec])

(***************************************************************************)
(* Subrecord splitting: the loop of _parse_record over the payload.        *)
(* NoEscape stands for xxxx_size = None.  err: struct.unpack raised        *)
(* struct.error on an escape whose 4-byte value is cut short.              *)
(***************************************************************************)
NoEscape == -1

\* variant: the escape value is never cleared, so it also sizes later fields
RECURSIVE SplitSubrecords_StickyEscape(_, _, _, _)
SplitSubrecords_StickyEscape(d, p, xxxx_size, subs) ==
    IF ~(p < Len(d) /\ Len(d) - p >= 6) THEN [err |-> FALSE, subs |-> subs]
    ELSE
      LET sub_type == DecodeSig(Slice(d, p, p + 4))
          sub_size == Unpack16(Slice(d, p + 4, p + 6))
          q == p + 6
          size == IF xxxx_size # NoEscape THEN xxxx_size ELSE sub_size
      IN  IF sub_type = "XXXX"
          THEN IF Len(d) - q < 4 THEN [err |-> TRUE, subs |-> subs]
               ELSE Strict(LAMBDA n : SplitSubrecords_StickyEscape(d, q + 4, n, subs),
                           Unpack32(Slice(d, q, q + 4)))
          ELSE IF size > Len(d) - q THEN [err |-> FALSE, subs |-> subs]
          ELSE Strict(LAMBDA a : SplitSubrecords_StickyEscape(d, a.p, xxxx_size, a.subs),
                      [p |-> q + size,
                       subs |-> Append(subs, [type |-> sub_type,
                                              data |-> Slice(d, q, q + size)])])

\* variant: a field that runs past the payload raises
RECURSIVE SplitSubrecords_OverrunRaises(_, _, _, _)
SplitSubrecords_OverrunRaises(d, p, xxxx_size, subs) ==
    IF ~(p < Len(d) /\ Len(d) - p >= 6) THEN [err |-> FALSE, subs |-> subs]
    ELSE
      LET sub_type == DecodeSig(Slice(d, p, p + 4))
          sub_size == Unpack16(Slice(d, p + 4, p + 6))
          q == p + 6
          size == IF xxxx_size # NoEscape THEN xxxx_size ELSE sub_size
      IN  IF sub_type = "XXXX"
          THEN IF Len(d) - q < 4 THEN [err |-> TRUE, subs |-> subs]
               ELSE Strict(LAMBDA n : SplitSubrecords_OverrunRaises(d, q + 4, n, subs),
                           Unpack32(Slice(d, q, q + 4)))
          ELSE IF size > Len(d) - q THEN [err |-> TRUE, subs |-> subs]
          ELSE Strict(LAMBDA a : SplitSubrecords_OverrunRaises(d, a.p, NoEscape, a.subs),
                      [p |-> q + size,
                       subs |-> Append(subs, [type |-> sub_type,
                                              data |-> Slice(d, q, q + size)])])

RECURSIVE SplitSubrecords(_, _, _, _)
SplitSubrecords(d, p, xxxx_size, subs) ==
    IF ~(p < Len(d) /\ Len(d) - p >= 6) THEN [err |-> FALSE, subs |-> subs]
    ELSE
      LET sub_type == DecodeSig(Slice(d, p, p + 4))
          sub_size == Unpack16(Slice(d, p + 4, p + 6))
          q == p + 6
          size == IF xxxx_size # NoEscape THEN xxxx_size ELSE sub_size
      IN  IF sub_type = "XXXX"
          THEN IF Len(d) - q < 4 THEN [err |-> TRUE, subs |-> subs]
               ELSE Strict(LAMBDA n : SplitSubrecords(d, q + 4, n, subs),
                           Unpack32(Slice(d, q, q + 4)))
          ELSE IF size > Len(d) - q THEN [err |-> FALSE, subs |-> subs]
          ELSE Strict(LAMBDA a : SplitSubrecords(d, a.p, NoEscape, a.subs),
                      [p |-> q + size,
                       subs |-> Append(subs, [type |-> sub_type,
                                              data |-> Slice(d, q, q + size)])])

(***************************************************************************)
(* Python dicts keep insertion order: a dict is a sequence of [key, val].  *)
(***************************************************************************)
DictHas(d, k) == \E i \in 1..Len(d) : d[i].key = k
DictGet(d, k) == d[CHOOSE i \in 1..Len(d) : d[i].key = k].val
DictKeys(d) == {d[i].key : i \in 1..Len(d)}
\* variant: an existing entry is kept, the assignment is lost
DictSet_KeepFirst(d, k, v) ==
    IF DictHas(d, k) THEN d ELSE Append(d, [key |-> k, val |-> v])

\* d[k] = v
DictSet(d, k, v) ==
    IF DictHas(d, k)
    THEN [d EXCEPT ![CHOOSE i \in 1..Len(d) : d[i].key = k].val = v]
    ELSE Append(d, [key |-> k, val |-> v])
\* d[k].append(v) on a defaultdict(list)
DictAppend(d, k, v) == DictSet(d, k, IF DictHas(d, k) THEN Append(DictGet(d, k), v) ELSE <<v>>)
\* d[k] += 1 on a defaultdict(int)
DictIncr(d, k) == DictSet(d, k, IF DictHas(d, k) THEN DictGet(d, k) + 1 ELSE 1)

(***************************************************************************)
(* BinaryReader over (data, pos).                                          *)
(***************************************************************************)
remaining(d, p) == Len(d) - p
has_data(d, p) == p < Len(d)
\* peek_sig: the empty string stands for None
peek_sig(d, p) ==
    IF p + 4 > Len(d) THEN ""
    ELSE IF IsAscii(Slice(d, p, p + 4)) THEN StrOf(Slice(d, p, p + 4)) ELSE ""
\* struct.unpack_from('<i'): signed
UnpackI32(b) ==
    IF b[4] >= 128
    THEN b[1] + 256 * b[2] + 65536 * b[3] + 16777216 * (b[4] - 256)
    ELSE Unpack32(b)

\* the methods as functions of (data, pos): each yields whether it raised,
\* the position it leaves and the value it returns
NoValue == <<>>

\* read(n): a slice, which is shorter than n when fewer bytes are left
read(d, p, n) == [err |-> FALSE, pos |-> p + n, value |-> Slice(d, p, p + n)]

\* struct.unpack_from raises before pos is advanced
read_uint8(d, p) ==
    IF CanUnpack(d, p, 1) THEN [err |-> FALSE, pos |-> p + 1, value |-> d[p + 1]]
    ELSE [err |-> TRUE, pos |-> p, value |-> NoValue]

read_uint16(d, p) ==
    IF CanUnpack(d, p, 2)
    THEN [err |-> FALSE, pos |-> p + 2, value |-> Unpack16(Slice(d, p, p + 2))]
    ELSE [err |-> TRUE, pos |-> p, value |-> NoValue]

read_uint32(d, p) ==
    IF CanUnpack(d, p, 4)
    THEN [err |-> FALSE, pos |-> p + 4, value |-> Unpack32(Slice(d, p, p + 4))]
    ELSE [err |-> TRUE, pos |-> p, value |-> NoValue]

read_int32(d, p) ==
    IF CanUnpack(d, p, 4)
    THEN [err |-> FALSE, pos |-> p + 4, value |-> UnpackI32(Slice(d, p, p + 4))]
    ELSE [err |-> TRUE, pos |-> p, value |-> NoValue]

\* a float is kept as the four bytes it is unpacked from
read_float(d, p) ==
    IF CanUnpack(d, p, 4)
    THEN [err |-> FALSE, pos |-> p + 4, value |-> Slice(d, p, p + 4)]
    ELSE [err |-> TRUE, pos |-> p, value |-> NoValue]

\* raw[:raw.index(b'\x00')] when raw holds a NUL
RECURSIVE CutAtNul(_)
CutAtNul(raw) ==
    IF raw = <<>> \/ raw[1] = 0 THEN <<>> ELSE <<raw[1]>> \o CutAtNul(Tail(raw))

read_string(d, p, n) ==
    [err |-> FALSE, pos |-> p + n, value |-> DecodeText(CutAtNul(Slice(d, p, p + n)))]

read_sig(d, p) ==
    [err |-> FALSE, pos |-> p + 4, value |-> DecodeSig(Slice(d, p, p + 4))]

skip(d, p, n) == [err |-> FALSE, pos |-> p + n, value |-> NoValue]

(***************************************************************************)
(* ESPParser.__init__                                                      *)
(***************************************************************************)
\* version is a float: it is kept as the four bytes it is unpacked from
InitHdr ==
    [version |-> <<0, 0, 0, 0>>, num_records |-> 0, next_object_id |-> 0,
     author |-> "", description |-> "",
     is_esm |-> FALSE, is_esl |-> FALSE, is_localized |-> FALSE]

NoReturn == [kind |-> "none"]
ReturnNone == [kind |-> "None"]
ReturnRec(rec) == [kind |-> "rec", rec |-> rec]

ParserInit ==
    /\ pos = 0
    /\ stack = <<>>
    /\ hdr = InitHdr
    /\ masters = <<>>
    /\ records = <<>>
    /\ records_by_formid = <<>>
    /\ group_count = 0
    /\ record_count = 0
    /\ compressed_count = 0
    /\ type_counts = <<>>
    /\ ret = NoReturn
    /\ result = NoReturn

(***************************************************************************)
(* _parse_tes4                                                             *)
(***************************************************************************)
\* the HEDR branch: three unpacks of sub_data[0:4], [4:8], [8:12]; each needs
\* its four bytes or raises struct.error
HedrFields(h, sub_data) ==
    LET h1 == IF Len(sub_data) >= 4
              THEN [h EXCEPT !.version = Slice(sub_data, 0, 4)] ELSE h
        h2 == IF Len(sub_data) >= 8
              THEN [h1 EXCEPT !.num_records = UnpackI32(Slice(sub_data, 4, 8))] ELSE h1
        h3 == IF Len(sub_data) >= 12
              THEN [h2 EXCEPT !.next_object_id = Unpack32(Slice(sub_data, 8, 12))] ELSE h2
    IN  [err |-> Len(sub_data) < 12, hdr |-> h3]

\* variant: a MAST name is put in front of the names read before it
RECURSIVE Tes4Fields_Prepend(_, _, _)
Tes4Fields_Prepend(d, end_pos, st) ==
    IF st.err \/ ~(st.pos < end_pos) THEN st
    ELSE
      LET p == st.pos
          sub_type == DecodeSig(Slice(d, p, p + 4))
      IN  IF ~CanUnpack(d, p + 4, 2) THEN [st EXCEPT !.err = TRUE, !.pos = p + 4]
          ELSE
            LET sub_size == Unpack16(Slice(d, p + 4, p + 6))
                sub_data == Slice(d, p + 6, p + 6 + sub_size)
                q == p + 6 + sub_size
                hedr == HedrFields(st.hdr, sub_data)
                text == DecodeText(RStripNul(sub_data))
            IN  Strict(LAMBDA nxt : Tes4Fields_Prepend(d, end_pos, nxt),
                  IF sub_type = "HEDR"
                  THEN [st EXCEPT !.err = hedr.err, !.pos = q, !.hdr = hedr.hdr]
                  ELSE IF sub_type = "CNAM"
                  THEN [st EXCEPT !.pos = q, !.hdr.author = text]
                  ELSE IF sub_type = "SNAM"
                  THEN [st EXCEPT !.pos = q, !.hdr.description = text]
                  ELSE IF sub_type = "MAST"
                  THEN [st EXCEPT !.pos = q, !.masters = <<text>> \o @]
                  ELSE [st EXCEPT !.pos = q])

\* the while loop over the header's field block, st = [err, pos, hdr, masters]
\* variant: the payload of a field of an unknown type is not stepped over
RECURSIVE Tes4Fields_SkipByType(_, _, _)
Tes4Fields_SkipByType(d, end_pos, st) ==
    IF st.err \/ ~(st.pos < end_pos) THEN st
    ELSE
      LET p == st.pos
          sub_type == DecodeSig(Slice(d, p, p + 4))
      IN  IF ~CanUnpack(d, p + 4, 2) THEN [st EXCEPT !.err = TRUE, !.pos = p + 4]
          ELSE
            LET sub_size == Unpack16(Slice(d, p + 4, p + 6))
                sub_data == Slice(d, p + 6, p + 6 + sub_size)
                q == p + 6 + sub_size
                hedr == HedrFields(st.hdr, sub_data)
                text == DecodeText(RStripNul(sub_data))
            IN  Strict(LAMBDA nxt : Tes4Fields_SkipByType(d, end_pos, nxt),
                  IF sub_type = "HEDR"
                  THEN [st EXCEPT !.err = hedr.err, !.pos = q, !.hdr = hedr.hdr]
                  ELSE IF sub_type = "CNAM"
                  THEN [st EXCEPT !.pos = q, !.hdr.author = text]
                  ELSE IF sub_type = "SNAM"
                  THEN [st EXCEPT !.pos = q, !.hdr.description = text]
                  ELSE IF sub_type = "MAST"
                  THEN [st EXCEPT !.pos = q, !.masters = Append(@, text)]
                  ELSE IF sub_type = "DATA"
                  THEN [st EXCEPT !.pos = q]
                  ELSE [st EXCEPT !.pos = p + 6])

RECURSIVE Tes4Fields(_, _, _)
Tes4Fields(d, end_pos, st) ==
    IF st.err \/ ~(st.pos < end_pos) THEN st
    ELSE
      LET p == st.pos
          sub_type == DecodeSig(Slice(d, p, p + 4))
      IN  IF ~CanUnpack(d, p + 4, 2) THEN [st EXCEPT !.err = TRUE, !.pos = p + 4]
          ELSE
            LET sub_size == Unpack16(Slice(d, p + 4, p + 6))
                sub_data == Slice(d, p + 6, p + 6 + sub_size)
                q == p + 6 + sub_size
                hedr == HedrFields(st.hdr, sub_data)
                text == DecodeText(RStripNul(sub_data))
            IN  Strict(LAMBDA nxt : Tes4Fields(d, end_pos, nxt),
                  IF sub_type = "HEDR"
                  THEN [st EXCEPT !.err = hedr.err, !.pos = q, !.hdr = hedr.hdr]
                  ELSE IF sub_type = "CNAM"
                  THEN [st EXCEPT !.pos = q, !.hdr.author = text]
                  ELSE IF sub_type = "SNAM"
                  THEN [st EXCEPT !.pos = q, !.hdr.description = text]
                  ELSE IF sub_type = "MAST"
                  THEN [st EXCEPT !.pos = q, !.masters = Append(@, text)]
                  ELSE [st EXCEPT !.pos = q])

\* variant: the signature read at position 0 is not compared with TES4
parse_tes4_AnySig(d) ==
    LET st0 == [err |-> TRUE, pos |-> 4, hdr |-> InitHdr, masters |-> <<>>]
    IN  IF ~CanUnpack(d, 4, 4) THEN st0
        ELSE IF ~CanUnpack(d, 8, 4) THEN [st0 EXCEPT !.pos = 8]
        ELSE IF ~CanUnpack(d, 12, 4) THEN [st0 EXCEPT !.pos = 12]
        ELSE IF ~CanUnpack(d, 16, 4) THEN [st0 EXCEPT !.pos = 16]
        ELSE IF ~CanUnpack(d, 20, 4) THEN [st0 EXCEPT !.pos = 20]
        ELSE
          LET data_size == Unpack32(Slice(d, 4, 8))
              flags == Unpack32(Slice(d, 8, 12))
              h == [InitHdr EXCEPT !.is_esm = HasFlag(flags, FLAG_ESM),
                                   !.is_esl = HasFlag(flags, FLAG_ESL),
                                   !.is_localized = HasFlag(flags, FLAG_LOCALIZED)]
          IN  Tes4Fields(d, HeaderSize + data_size,
                         [err |-> FALSE, pos |-> HeaderSize, hdr |-> h,
                          masters |-> <<>>])

\* the whole of _parse_tes4 on a reader at position 0
parse_tes4(d) ==
    LET st0 == [err |-> TRUE, pos |-> 4, hdr |-> InitHdr, masters |-> <<>>]
    IN  IF DecodeSig(Slice(d, 0, 4)) # "TES4" THEN st0
        ELSE IF ~CanUnpack(d, 4, 4) THEN st0
        ELSE IF ~CanUnpack(d, 8, 4) THEN [st0 EXCEPT !.pos = 8]
        ELSE IF ~CanUnpack(d, 12, 4) THEN [st0 EXCEPT !.pos = 12]
        ELSE IF ~CanUnpack(d, 16, 4) THEN [st0 EXCEPT !.pos = 16]
        ELSE IF ~CanUnpack(d, 20, 4) THEN [st0 EXCEPT !.pos = 20]
        ELSE
          LET data_size == Unpack32(Slice(d, 4, 8))
              flags == Unpack32(Slice(d, 8, 12))
              h == [InitHdr EXCEPT !.is_esm = HasFlag(flags, FLAG_ESM),
                                   !.is_esl = HasFlag(flags, FLAG_ESL),
                                   !.is_localized = HasFlag(flags, FLAG_LOCALIZED)]
          IN  Tes4Fields(d, HeaderSize + data_size,
                         [err |-> FALSE, pos |-> HeaderSize, hdr |-> h,
                          masters |-> <<>>])

ParseTes4 ==
    /\ pc = "start"
    /\ \E st \in {parse_tes4(data)} :
           /\ pos' = st.pos
           /\ hdr' = st.hdr
           /\ masters' = st.masters
           /\ pc' = IF st.err THEN "error" ELSE "parsing"
    /\ UNCHANGED <<other, vanilla_keywords, input, data, filter_types, filename, stack, records, records_by_formid,
                   group_count, record_count, compressed_count, type_counts,
                   ret, result>>

(***************************************************************************)
(* The loops of parse and _parse_group.                                    *)
(***************************************************************************)
\* `filter_types and ...`: None and the empty set are both falsy
FilterNone == [given |-> FALSE, types |-> {}]
FilterSet(types) == [given |-> TRUE, types |-> types]
\* variant: any set that was handed over prunes, the empty one too
FilterActive_AnyGiven(f) == f.given

\* the truth value of filter_types in "if filter_types and ..."
FilterActive(f) == f.given /\ f.types # {}

TopFrame == stack[Len(stack)]

\* the loop test of parse at top level, of _parse_group (with its break on
\* remaining() < 4) inside a group
LoopCond ==
    IF stack = <<>>
    THEN has_data(data, pos) /\ remaining(data, pos) >= 4
    ELSE pos < TopFrame.end_pos /\ ~(remaining(data, pos) < 4)

\* group_count += 1 (line 374): a Python int, it counts on without wrapping.
CountUp(n) == n + 1

(***************************************************************************)
(* _parse_group up to its loop: the envelope, the filter, the skip.        *)
(* The five unpack_from reads raise struct.error when the buffer ends      *)
(* inside the 24-byte envelope.                                            *)
(***************************************************************************)
GroupEnvelopeError(d, p) == ~CanUnpack(d, p + 20, 4)
GroupErrorPos(d, p) ==
    IF ~CanUnpack(d, p + 4, 4) THEN p + 4
    ELSE IF ~CanUnpack(d, p + 12, 4) THEN p + 12
    ELSE IF ~CanUnpack(d, p + 16, 4) THEN p + 16
    ELSE p + 20

group_size_at(d, p) == Unpack32(Slice(d, p + 4, p + 8))
group_label_at(d, p) == DecodeSig(Slice(d, p + 8, p + 12))
group_type_at(d, p) == UnpackI32(Slice(d, p + 12, p + 16))

\* the pruning test of lines 381-393
GroupIsSkipped(d, p, f) ==
    /\ group_type_at(d, p) = 0
    /\ FilterActive(f)
    /\ group_label_at(d, p) \notin f.types

\* variant: the content size is added to the place of the envelope
SkipTarget_FromEnvelope(d, p) == p + (group_size_at(d, p) - HeaderSize)

\* variant: skips the declared size, not the content size
SkipTarget_WholeSize(d, p) == (p + HeaderSize) + group_size_at(d, p)

\* reader.skip(content_size) after the 24 envelope bytes
SkipTarget(d, p) == (p + HeaderSize) + (group_size_at(d, p) - HeaderSize)

ParseGroup ==
    /\ pc = "parsing"
    /\ LoopCond
    /\ peek_sig(data, pos) = "GRUP"
    /\ IF GroupEnvelopeError(data, pos)
       THEN /\ pc' = "error"
            /\ pos' = GroupErrorPos(data, pos)
            /\ UNCHANGED <<stack, group_count>>
       ELSE /\ pc' = pc
            /\ group_count' = CountUp(group_count)
            /\ IF GroupIsSkipped(data, pos, filter_types)
               THEN /\ pos' = SkipTarget(data, pos)
                    /\ UNCHANGED stack
               ELSE /\ pos' = pos + HeaderSize
                    /\ stack' = Append(stack,
                         [start |-> pos, size |-> group_size_at(data, pos),
                          end_pos |-> (pos + HeaderSize)
                                      + (group_size_at(data, pos) - HeaderSize)])
    /\ UNCHANGED <<other, vanilla_keywords, input, data, filter_types, filename, hdr, masters, records,
                   records_by_formid, record_count, compressed_count, type_counts,
                   ret, result>>

\* _parse_group returns when its loop ends
GroupReturn ==
    /\ pc = "parsing"
    /\ stack # <<>>
    /\ ~LoopCond
    /\ stack' = SubSeq(stack, 1, Len(stack) - 1)
    /\ UNCHANGED <<other, vanilla_keywords, input, data, filter_types, filename, pos, pc, hdr, masters, records,
                   records_by_formid, group_count, record_count, compressed_count,
                   type_counts, ret, result>>

(***************************************************************************)
(* _parse_record                                                           *)
(***************************************************************************)
\* lines 439-448: the payload the subrecords are split from
RecordPayload(rec, record_data) ==
    IF rec.is_compressed /\ Len(record_data) >= 4
    THEN Strict(LAMBDA z : [counted |-> TRUE, ok |-> z.ok, bytes |-> z.out],
                ZlibDecompress(Slice(record_data, 4, Len(record_data)),
                               Unpack32(Slice(record_data, 0, 4))))
    ELSE [counted |-> FALSE, ok |-> TRUE, bytes |-> record_data]

\* variant: a truncated record leaves the cursor behind its envelope
parse_record_TruncStays(d, p) ==
    IF remaining(d, p) < HeaderSize
    THEN [pos |-> p + remaining(d, p), sig |-> "", counted |-> FALSE, comp |-> FALSE,
          err |-> FALSE, stored |-> FALSE, ret |-> ReturnNone]
    ELSE
      LET sig == DecodeSig(Slice(d, p, p + 4))
          data_size == Unpack32(Slice(d, p + 4, p + 8))
          flags == Unpack32(Slice(d, p + 8, p + 12))
          form_id == Unpack32(Slice(d, p + 12, p + 16))
          timestamp == Unpack32(Slice(d, p + 16, p + 20))
          version_info == Unpack32(Slice(d, p + 20, p + 24))
          q == p + HeaderSize
      IN  IF data_size > remaining(d, q)
          THEN [pos |-> q, sig |-> sig, counted |-> TRUE,
                comp |-> FALSE, err |-> FALSE, stored |-> FALSE, ret |-> ReturnNone]
          ELSE
            LET record_data == Slice(d, q, q + data_size)
                rec == NewRecord(sig, data_size, flags, form_id, timestamp,
                                 version_info)
                out == [pos |-> q + data_size, sig |-> sig, counted |-> TRUE,
                        comp |-> FALSE, err |-> FALSE, stored |-> FALSE,
                        ret |-> ReturnRec(rec)]
                Named(split) == parse_subrecords([rec EXCEPT !.subrecords = split.subs])
                Outcome(named) ==
                    IF named.err THEN [out EXCEPT !.err = TRUE, !.ret = NoReturn]
                    ELSE [out EXCEPT !.stored = TRUE, !.ret = ReturnRec(named.rec)]
                AfterSplit(split) ==
                    IF split.err THEN [out EXCEPT !.err = TRUE, !.ret = NoReturn]
                    ELSE Strict(Outcome, Named(split))
                AfterPayload(payload) ==
                    LET o == IF ~payload.ok THEN out
                             ELSE Strict(AfterSplit,
                                         SplitSubrecords(payload.bytes, 0, NoEscape, <<>>))
                    IN  [o EXCEPT !.comp = payload.counted]
            IN  Strict(AfterPayload, RecordPayload(rec, record_data))

\* The outcome of one call on a reader at p:
\*   pos      where the reader is left
\*   counted  record_count and type_counts[sig] were incremented
\*   comp     compressed_count was incremented
\*   err      an exception left the call
\*   stored   the record was added to records and records_by_formid
\*   ret      the value returned
parse_record(d, p) ==
    IF remaining(d, p) < HeaderSize
    THEN [pos |-> p + remaining(d, p), sig |-> "", counted |-> FALSE, comp |-> FALSE,
          err |-> FALSE, stored |-> FALSE, ret |-> ReturnNone]
    ELSE
      LET sig == DecodeSig(Slice(d, p, p + 4))
          data_size == Unpack32(Slice(d, p + 4, p + 8))
          flags == Unpack32(Slice(d, p + 8, p + 12))
          form_id == Unpack32(Slice(d, p + 12, p + 16))
          timestamp == Unpack32(Slice(d, p + 16, p + 20))
          version_info == Unpack32(Slice(d, p + 20, p + 24))
          q == p + HeaderSize
      IN  IF data_size > remaining(d, q)
          THEN [pos |-> q + remaining(d, q), sig |-> sig, counted |-> TRUE,
                comp |-> FALSE, err |-> FALSE, stored |-> FALSE, ret |-> ReturnNone]
          ELSE
            LET record_data == Slice(d, q, q + data_size)
                rec == NewRecord(sig, data_size, flags, form_id, timestamp,
                                 version_info)
                out == [pos |-> q + data_size, sig |-> sig, counted |-> TRUE,
                        comp |-> FALSE, err |-> FALSE, stored |-> FALSE,
                        ret |-> ReturnRec(rec)]
                Named(split) == parse_subrecords([rec EXCEPT !.subrecords = split.subs])
                Outcome(named) ==
                    IF named.err THEN [out EXCEPT !.err = TRUE, !.ret = NoReturn]
                    ELSE [out EXCEPT !.stored = TRUE, !.ret = ReturnRec(named.rec)]
                AfterSplit(split) ==
                    IF split.err THEN [out EXCEPT !.err = TRUE, !.ret = NoReturn]
                    ELSE Strict(Outcome, Named(split))
                AfterPayload(payload) ==
                    LET o == IF ~payload.ok THEN out
                             ELSE Strict(AfterSplit,
                                         SplitSubrecords(payload.bytes, 0, NoEscape, <<>>))
                    IN  [o EXCEPT !.comp = payload.counted]
            IN  Strict(AfterPayload, RecordPayload(rec, record_data))

ParseRecord ==
    /\ pc = "parsing"
    /\ LoopCond
    /\ peek_sig(data, pos) # "GRUP"
    /\ \E r \in {parse_record(data, pos)} :
           /\ pos' = r.pos
           /\ pc' = IF r.err THEN "error" ELSE pc
           /\ record_count' = IF r.counted THEN record_count + 1 ELSE record_count
           /\ type_counts' = IF r.counted THEN DictIncr(type_counts, r.sig)
                             ELSE type_counts
           /\ compressed_count' = IF r.comp THEN compressed_count + 1
                                  ELSE compressed_count
           /\ records' = IF r.stored THEN DictAppend(records, r.sig, r.ret.rec)
                         ELSE records
           /\ records_by_formid' =
                IF r.stored THEN DictSet(records_by_formid, r.ret.rec.form_id, r.ret.rec)
                ELSE records_by_formid
           /\ ret' = r.ret
    /\ UNCHANGED <<other, vanilla_keywords, input, data, filter_types, filename, stack, hdr, masters, group_count,
                   result>>

\* the loop of parse ends: parse returns
ParseDone ==
    /\ pc = "parsing"
    /\ stack = <<>>
    /\ ~LoopCond
    /\ pc' = "done"
    /\ UNCHANGED <<other, vanilla_keywords, input, data, filter_types, filename, pos, stack, hdr, masters, records,
                   records_by_formid, group_count, record_count, compressed_count,
                   type_counts, ret, result>>

(***************************************************************************)
(* One ESPParser as a value: the attributes of the object, with the bytes  *)
(* read from its file and the state of its reader.  StepOf is the step the *)
(* actions above take, RunFrom the whole decode of one parser on its own.  *)
(***************************************************************************)
NewParser(d, f) ==
    [data |-> d, filter_types |-> f, pos |-> 0, stack |-> <<>>, pc |-> "start",
     hdr |-> InitHdr, masters |-> <<>>, records |-> <<>>, records_by_formid |-> <<>>,
     group_count |-> 0, record_count |-> 0, compressed_count |-> 0,
     type_counts |-> <<>>, ret |-> NoReturn]

LoopCondOf(s) ==
    IF s.stack = <<>>
    THEN has_data(s.data, s.pos) /\ remaining(s.data, s.pos) >= 4
    ELSE s.pos < s.stack[Len(s.stack)].end_pos /\ ~(remaining(s.data, s.pos) < 4)

\* _parse_tes4 called by parse
Tes4StepOf(s) ==
    Strict(LAMBDA st : [s EXCEPT !.pos = st.pos, !.hdr = st.hdr, !.masters = st.masters,
                                 !.pc = IF st.err THEN "error" ELSE "parsing"],
           parse_tes4(s.data))

\* _parse_group up to its loop
GroupStepOf(s) ==
    IF GroupEnvelopeError(s.data, s.pos)
    THEN [s EXCEPT !.pc = "error", !.pos = GroupErrorPos(s.data, s.pos)]
    ELSE IF GroupIsSkipped(s.data, s.pos, s.filter_types)
    THEN [s EXCEPT !.group_count = CountUp(@), !.pos = SkipTarget(s.data, s.pos)]
    ELSE [s EXCEPT !.group_count = CountUp(@),
                   !.pos = s.pos + HeaderSize,
                   !.stack = Append(@, [start |-> s.pos,
                                        size |-> group_size_at(s.data, s.pos),
                                        end_pos |-> (s.pos + HeaderSize)
                                          + (group_size_at(s.data, s.pos) - HeaderSize)])]

\* one call of _parse_record
RecordStepOf(s) ==
    Strict(LAMBDA r :
             [s EXCEPT !.pos = r.pos,
                       !.pc = IF r.err THEN "error" ELSE @,
                       !.record_count = IF r.counted THEN @ + 1 ELSE @,
                       !.type_counts = IF r.counted THEN DictIncr(@, r.sig) ELSE @,
                       !.compressed_count = IF r.comp THEN @ + 1 ELSE @,
                       !.records = IF r.stored THEN DictAppend(@, r.sig, r.ret.rec) ELSE @,
                       !.records_by_formid =
                           IF r.stored THEN DictSet(@, r.ret.rec.form_id, r.ret.rec) ELSE @,
                       !.ret = r.ret],
           parse_record(s.data, s.pos))

StepOf(s) ==
    IF s.pc = "start" THEN Tes4StepOf(s)
    ELSE IF s.pc # "parsing" THEN s
    ELSE IF ~LoopCondOf(s)
    THEN IF s.stack = <<>> THEN [s EXCEPT !.pc = "done"]
         ELSE [s EXCEPT !.stack = SubSeq(@, 1, Len(@) - 1)]
    ELSE IF peek_sig(s.data, s.pos) = "GRUP" THEN GroupStepOf(s)
    ELSE RecordStepOf(s)

RECURSIVE RunFrom(_, _)
RunFrom(s, fuel) ==
    IF fuel = 0 \/ s.pc \notin {"start", "parsing"} THEN s
    ELSE Strict(LAMBDA n : RunFrom(n, fuel - 1), StepOf(s))

\* no second instance was constructed
NoParser == [pc |-> "absent"]

\* the parser the state variables hold
Self ==
    [data |-> data, filter_types |-> filter_types, pos |-> pos, stack |-> stack,
     pc |-> pc, hdr |-> hdr, masters |-> masters, records |-> records,
     records_by_formid |-> records_by_formid, group_count |-> group_count,
     record_count |-> record_count, compressed_count |-> compressed_count,
     type_counts |-> type_counts, ret |-> ret]

(***************************************************************************)
(* Identity resolution.                                                    *)
(***************************************************************************)
\* variant: the self index is taken for a master index
resolve_formid_OffByOne(form_id) ==
    LET master_idx == (form_id \div 16777216) % 256
        local == form_id % 16777216
    IN  IF master_idx < Len(masters) - 1
        THEN <<masters[master_idx + 1], FormatHex(local, 6)>>
        ELSE IF master_idx = Len(masters) - 1 \/ master_idx = Len(masters)
        THEN <<filename, FormatHex(local, 6)>>
        ELSE <<"UNKNOWN_MASTER_" \o FormatHex(master_idx, 2), FormatHex(local, 6)>>

resolve_formid(form_id) ==
    LET master_idx == (form_id \div 16777216) % 256
        local == form_id % 16777216
    IN  IF master_idx < Len(masters)
        THEN <<masters[master_idx + 1], FormatHex(local, 6)>>
        ELSE IF master_idx = Len(masters)
        THEN <<filename, FormatHex(local, 6)>>
        ELSE <<"UNKNOWN_MASTER_" \o FormatHex(master_idx, 2), FormatHex(local, 6)>>

resolve_formid_str(form_id) ==
    resolve_formid(form_id)[1] \o "|" \o resolve_formid(form_id)[2]

VANILLA_WEAPON_KEYWORDS ==
    <<[key |-> 303266, val |-> "WeaponTypeRifle"],
      [key |-> 303265, val |-> "WeaponTypePistol"],
      [key |-> 347205, val |-> "WeaponTypeShotgun"],
      [key |-> 669374, val |-> "WeaponTypeSniper"],
      [key |-> 669398, val |-> "WeaponTypeGatling"],
      [key |-> 347206, val |-> "WeaponTypeLaser"],
      [key |-> 669396, val |-> "WeaponTypePlasma"],
      [key |-> 669397, val |-> "WeaponTypeHeavyGun"],
      [key |-> 303268, val |-> "WeaponTypeMelee1H"],
      [key |-> 303269, val |-> "WeaponTypeMelee2H"],
      [key |-> 303270, val |-> "WeaponTypeUnarmed"],
      [key |-> 303267, val |-> "WeaponTypeAutomatic"],
      [key |-> 669399, val |-> "WeaponTypeGrenade"],
      [key |-> 669400, val |-> "WeaponTypeMine"],
      [key |-> 271599, val |-> "ObjectTypeWeapon"],
      [key |-> 271598, val |-> "ObjectTypeArmor"],
      [key |-> 271600, val |-> "ObjectTypeDrink"],
      [key |-> 271601, val |-> "ObjectTypeFood"]>>

\* variant: the static table is consulted before the decoded records
get_keyword_name_TableFirst(form_id) ==
    IF DictHas(vanilla_keywords, form_id)
    THEN DictGet(vanilla_keywords, form_id)
    ELSE IF DictHas(records_by_formid, form_id)
            /\ DictGet(records_by_formid, form_id).editor_id # ""
    THEN DictGet(records_by_formid, form_id).editor_id
    ELSE resolve_formid_str(form_id)

get_keyword_name(form_id) ==
    IF DictHas(records_by_formid, form_id)
       /\ DictGet(records_by_formid, form_id).editor_id # ""
    THEN DictGet(records_by_formid, form_id).editor_id
    ELSE IF DictHas(vanilla_keywords, form_id)
    THEN DictGet(vanilla_keywords, form_id)
    ELSE resolve_formid_str(form_id)

(***************************************************************************)
(* analyze_overrides                                                       *)
(***************************************************************************)
KeywordNames(rec) == [i \in 1..Len(rec.keywords) |-> get_keyword_name(rec.keywords[i])]

OverrideEntry(rec) ==
    [type |-> rec.type, form_id |-> form_id_hex(rec), editor_id |-> rec.editor_id,
     full_name |-> rec.full_name, keywords |-> KeywordNames(rec)]

NewRecordEntry(rec) ==
    [form_id |-> form_id_hex(rec), editor_id |-> rec.editor_id,
     full_name |-> rec.full_name, keywords |-> KeywordNames(rec)]

\* the records of parser.records in the order the two for loops visit them
RECURSIVE RecordsInOrder(_, _)
RecordsInOrder(recs, i) ==
    IF i > Len(recs) THEN <<>> ELSE recs[i].val \o RecordsInOrder(recs, i + 1)

\* the branch of lines 805-822 for one record
RecordIsOverride(rec) == master_index(rec) < Len(masters)

\* variant: a record of an unknown master is put in no bucket
AnalyzeOne_DropForeign(acc, rec) ==
    IF RecordIsOverride(rec)
    THEN [acc EXCEPT !.overrides =
            DictAppend(@, masters[master_index(rec) + 1], OverrideEntry(rec))]
    ELSE IF master_index(rec) = Len(masters)
    THEN [acc EXCEPT !.new_records = DictAppend(@, rec.type, NewRecordEntry(rec))]
    ELSE acc

AnalyzeOne(acc, rec) ==
    IF RecordIsOverride(rec)
    THEN [acc EXCEPT !.overrides =
            DictAppend(@, masters[master_index(rec) + 1], OverrideEntry(rec))]
    ELSE [acc EXCEPT !.new_records = DictAppend(@, rec.type, NewRecordEntry(rec))]

RECURSIVE AnalyzeFrom(_, _, _)
AnalyzeFrom(acc, recs, i) ==
    IF i > Len(recs) THEN acc ELSE AnalyzeFrom(AnalyzeOne(acc, recs[i]), recs, i + 1)

analyze_overrides ==
    AnalyzeFrom([overrides |-> <<>>, new_records |-> <<>>],
                RecordsInOrder(records, 1), 1)

(***************************************************************************)
(* Input files.  A file is a TES4 header followed by up to MaxItems items  *)
(* taken from Items; the items cover well-formed groups and records and    *)
(* the malformed envelopes and payloads the decoder has to survive.  Every *)
(* 32-bit field an input leads the decoder to read is below 2^31.          *)
(***************************************************************************)
B_GRUP == <<71, 82, 85, 80>>
B_TES4 == <<84, 69, 83, 52>>
B_HEDR == <<72, 69, 68, 82>>
B_CNAM == <<67, 78, 65, 77>>
B_MAST == <<77, 65, 83, 84>>
B_DATA == <<68, 65, 84, 65>>
B_EDID == <<69, 68, 73, 68>>
B_FULL == <<70, 85, 76, 76>>
B_KSIZ == <<75, 83, 73, 90>>
B_KWDA == <<75, 87, 68, 65>>
B_XXXX == <<88, 88, 88, 88>>
B_KYWD == <<75, 89, 87, 68>>
B_WEAP == <<87, 69, 65, 80>>
B_AMMO == <<65, 77, 77, 79>>
B_ARMO == <<65, 82, 77, 79>>

U16(n) == <<n % 256, (n \div 256) % 256>>
U32(n) == <<n % 256, (n \div 256) % 256, (n \div 65536) % 256, (n \div 16777216) % 256>>

SubBytes(sig, payload) == sig \o U16(Len(payload)) \o payload
\* an oversized-size escape carrying n, then the field with 16-bit size sz
EscSubBytes(sig, n, sz, payload) ==
    B_XXXX \o U16(4) \o U32(n) \o sig \o U16(sz) \o payload
RecBytes(sig, flags, form_id, declared, payload) ==
    sig \o U32(declared) \o U32(flags) \o U32(form_id) \o U32(0) \o U32(0) \o payload
GrpBytes(label, gtype, declared, content) ==
    B_GRUP \o U32(declared) \o label \o U32(gtype) \o U32(0) \o U32(0) \o content
\* a group that declares its true size
Grp(label, gtype, content) == GrpBytes(label, gtype, HeaderSize + Len(content), content)
\* a record that declares its true payload size
Rec(sig, flags, form_id, payload) == RecBytes(sig, flags, form_id, Len(payload), payload)
\* a zlib stream holding b in one stored block
ZStored(b) ==
    <<120, 1, 1>> \o U16(Len(b)) \o U16(65535 - Len(b)) \o b \o Adler32(b)
\* the payload of a compressed record: size hint, then the stream
Compressed(hint, stream) == U32(hint) \o stream

MasterName(i) == <<64 + i>> \o <<46, 101, 115, 109, 0>>

RECURSIVE MasterFields(_, _)
MasterFields(i, m) ==
    IF i > m THEN <<>>
    ELSE SubBytes(B_MAST, MasterName(i)) \o SubBytes(B_DATA, <<0, 0, 0, 0, 0, 0, 0, 0>>)
         \o MasterFields(i + 1, m)

\* a header with version 1.0, 2 declared records, next id 0x800 and m masters
HeaderBytes(m) ==
    Rec(B_TES4, 0, 0,
        SubBytes(B_HEDR, <<0, 0, 128, 63>> \o U32(2) \o U32(2048))
        \o SubBytes(B_CNAM, <<109, 101, 0>>)
        \o MasterFields(1, m))

R_Kywd == Rec(B_KYWD, 0, 16777217, SubBytes(B_EDID, <<75, 119, 0>>))
R_Kywd2 == Rec(B_KYWD, 0, 16777217, SubBytes(B_EDID, <<75, 50, 0>>))
R_Weap ==
    Rec(B_WEAP, 0, 33554437,
        SubBytes(B_EDID, <<87, 0>>)
        \o EscSubBytes(B_DATA, 3, 0, <<1, 2, 3>>)
        \o SubBytes(B_KSIZ, U32(2))
        \o SubBytes(B_KWDA, U32(16777217) \o U32(303266)))
R_Ammo == Rec(B_AMMO, 0, 7, SubBytes(B_DATA, <<9, 9>>))
R_Armo == Rec(B_ARMO, 0, 83886080, <<>>)
\* compressed, size hint right
R_Comp ==
    Rec(B_WEAP, FLAG_COMPRESSED, 33554440,
        Compressed(8, ZStored(SubBytes(B_EDID, <<67, 0>>))))
\* compressed, the stream is sound and the size hint is wrong
R_CompHint ==
    Rec(B_WEAP, FLAG_COMPRESSED, 33554438,
        Compressed(9, ZStored(SubBytes(B_EDID, <<72, 0>>))))
\* compressed, the stream is not a zlib stream
R_CompBad == Rec(B_WEAP, FLAG_COMPRESSED, 33554439, Compressed(5, <<0, 0, 0>>))
\* the payload ends inside an oversized-size escape
R_CutEsc == Rec(B_WEAP, 0, 33554441, B_XXXX \o U16(4) \o <<7, 0>>)
\* the envelope declares more payload than the file holds
R_Trunc == RecBytes(B_KYWD, 0, 16777226, 2000, <<1, 2>>)

Items ==
    { Grp(B_KYWD, 0, R_Kywd),
      Grp(B_WEAP, 0, R_Weap \o R_CompHint),
      R_Ammo,
      Grp(B_KYWD, 0, Grp(<<1, 0, 0, 0>>, 6, R_Armo) \o R_Comp),
      GrpBytes(B_WEAP, 0, 0, <<>>),
      GrpBytes(B_ARMO, 0, 48, R_Kywd),
      Grp(B_WEAP, 0, R_CutEsc),
      Grp(B_WEAP, 0, R_CompBad \o R_Kywd2),
      Grp(B_KYWD, 0, R_Trunc),
      GrpBytes(B_ARMO, 0, 1000, R_Armo) }

RECURSIVE Bodies(_)
Bodies(n) ==
    IF n = 0 THEN {<<>>}
    ELSE Bodies(n - 1) \cup {b \o it : b \in Bodies(n - 1), it \in Items}

Files == {HeaderBytes(m) \o b : m \in 0..MaxMasters, b \in Bodies(MaxItems)}

\* files whose first four bytes are not the TES4 signature: empty, shorter
\* than a signature, starting with a GRUP, starting with a record, and a
\* sound header whose signature has one byte changed
BadSigFiles ==
    { <<>>,
      <<84, 69, 83>>,
      Grp(B_KYWD, 0, R_Kywd),
      R_Kywd \o Grp(B_KYWD, 0, R_Kywd),
      <<84, 69, 83, 51>> \o Tail(Tail(Tail(Tail(HeaderBytes(1)))))
          \o Grp(B_KYWD, 0, R_Kywd) }

\* a header whose field block has an author and one master and no HEDR field
HeaderNoHedr ==
    Rec(B_TES4, 0, 0, SubBytes(B_CNAM, <<109, 101, 0>>) \o MasterFields(1, 1))

NoHedrFiles == {HeaderNoHedr \o b : b \in Bodies(1)}

\* five bytes that are no envelope, after the header and after a group
StrayFiles ==
    { HeaderBytes(1) \o <<1, 2, 3, 4, 5>>,
      HeaderBytes(0) \o Grp(B_KYWD, 0, R_Kywd) \o <<1, 2, 3, 4, 5>> }

\* records that carry identities of the static keyword table: one with an
\* editor id, one without
R_Van == Rec(B_KYWD, 0, 303266, SubBytes(B_EDID, <<86, 0>>))
R_VanEmpty == Rec(B_KYWD, 0, 303265, <<>>)

VanillaFiles == {HeaderBytes(m) \o Grp(B_KYWD, 0, R_Van \o R_VanEmpty) : m \in 0..1}

\* headers whose MAST fields name the masters ms[1], ms[2], ... in that order
RECURSIVE MasterFieldsOf(_)
MasterFieldsOf(ms) ==
    IF ms = <<>> THEN <<>>
    ELSE SubBytes(B_MAST, MasterName(Head(ms)))
         \o SubBytes(B_DATA, <<0, 0, 0, 0, 0, 0, 0, 0>>) \o MasterFieldsOf(Tail(ms))

HeaderWith(ms) ==
    Rec(B_TES4, 0, 0,
        SubBytes(B_HEDR, <<0, 0, 128, 63>> \o U32(2) \o U32(2048))
        \o SubBytes(B_CNAM, <<109, 101, 0>>)
        \o MasterFieldsOf(ms))

\* masters out of alphabetical order and masters named twice
MasterOrders == {<<2, 1>>, <<1, 1>>, <<2, 2, 1>>}

MasterOrderFiles ==
    {HeaderWith(ms) \o b : ms \in MasterOrders, b \in {<<>>, Grp(B_KYWD, 0, R_Kywd)}}

\* records with a field whose size runs past the payload: by its own 16-bit
\* size (FULL declares 9 bytes, 2 follow) and by a pending escape (50 for 3)
R_Over ==
    Rec(B_WEAP, 0, 33554450,
        SubBytes(B_EDID, <<79, 0>>) \o SubBytes(B_DATA, <<5>>)
        \o B_FULL \o U16(9) \o <<65, 66>>)
R_OverEsc ==
    Rec(B_WEAP, 0, 33554451,
        SubBytes(B_EDID, <<80, 0>>)
        \o B_XXXX \o U16(4) \o U32(50) \o B_DATA \o U16(0) \o <<1, 2, 3>>)

OverrunFiles ==
    {HeaderBytes(0) \o Grp(B_WEAP, 0, r \o R_Weap) : r \in {R_Over, R_OverEsc}}

\* a record whose keyword count says 1 while its keyword array holds two
\* identities
R_KsizLess ==
    Rec(B_WEAP, 0, 33554452,
        SubBytes(B_EDID, <<76, 0>>)
        \o SubBytes(B_KSIZ, U32(1))
        \o SubBytes(B_KWDA, U32(16777217) \o U32(303266)))

KeywordFiles == {HeaderBytes(0) \o Grp(B_WEAP, 0, R_KsizLess \o R_Weap)}

\* a record with two EDID fields and three DATA fields
R_Multi ==
    Rec(B_WEAP, 0, 33554453,
        SubBytes(B_EDID, <<70, 49, 0>>) \o SubBytes(B_DATA, <<1>>)
        \o SubBytes(B_EDID, <<83, 50, 0>>) \o SubBytes(B_DATA, <<2, 2>>)
        \o SubBytes(B_DATA, <<3>>))

RepeatFiles == {HeaderBytes(0) \o Grp(B_WEAP, 0, R_Multi \o R_Weap)}

\* the header as a list of fields, and a field of a type _parse_tes4 has no
\* branch for put in front of field number k + 1 of that list
RECURSIVE Flatten(_)
Flatten(l) == IF l = <<>> THEN <<>> ELSE Head(l) \o Flatten(Tail(l))

RECURSIVE MasterFieldList(_)
MasterFieldList(ms) ==
    IF ms = <<>> THEN <<>>
    ELSE <<SubBytes(B_MAST, MasterName(Head(ms))),
           SubBytes(B_DATA, <<0, 0, 0, 0, 0, 0, 0, 0>>)>> \o MasterFieldList(Tail(ms))

HeaderFieldList(ms) ==
    <<SubBytes(B_HEDR, <<0, 0, 128, 63>> \o U32(2) \o U32(2048)),
      SubBytes(B_CNAM, <<109, 101, 0>>)>> \o MasterFieldList(ms)

HeaderOfFields(l) == Rec(B_TES4, 0, 0, Flatten(l))

InsertAt(l, k, f) == SubSeq(l, 1, k) \o <<f>> \o SubSeq(l, k + 1, Len(l))

B_INTV == <<73, 78, 84, 86>>
B_ZZZZ == <<90, 90, 90, 90>>
UnknownFields ==
    {SubBytes(B_INTV, <<1, 2, 3, 4>>), SubBytes(B_ZZZZ, <<>>),
     SubBytes(B_XXXX, U32(7)), SubBytes(B_KWDA, <<9, 9, 9, 9, 9, 9>>)}

InsertBody == Grp(B_WEAP, 0, R_Weap) \o Grp(B_KYWD, 0, R_Kywd)

InsertCases == [k : 0..4, f : UnknownFields]
WithInsert(c) == HeaderOfFields(InsertAt(HeaderFieldList(<<1>>), c.k, c.f)) \o InsertBody
WithoutInsert == HeaderOfFields(HeaderFieldList(<<1>>)) \o InsertBody

InsertFiles == {WithInsert(c) : c \in InsertCases}

\* a header whose last field (CNAM) declares 40 bytes where the block, as
\* the envelope sizes it, leaves 3
HeaderLongField ==
    RecBytes(B_TES4, 0, 0, 27,
             SubBytes(B_HEDR, <<0, 0, 128, 63>> \o U32(2) \o U32(2048))
             \o B_CNAM \o U16(40) \o <<109, 101, 0>>)

LongFieldFiles == {HeaderLongField \o Grp(B_KYWD, 0, R_Kywd)}

ExtraFiles ==
    BadSigFiles \cup NoHedrFiles \cup StrayFiles \cup VanillaFiles \cup MasterOrderFiles
    \cup OverrunFiles \cup KeywordFiles \cup RepeatFiles \cup InsertFiles
    \cup LongFieldFiles

Filters == {FilterNone, FilterSet({}), FilterSet({"KYWD"})}

\* identities asked of resolve_formid
FormIdInputs == {0, 16777217, 33554437, 83886080, 2147483647}

(***************************************************************************)
(* Post-parse queries.                                                     *)
(***************************************************************************)
ResolveFormid ==
    /\ pc = "done"
    /\ \E f \in FormIdInputs :
         result' = [kind |-> "resolve_formid", form_id |-> f,
                    value |-> resolve_formid(f)]
    /\ pc' = "queried"
    /\ UNCHANGED <<other, vanilla_keywords, input, data, filter_types, filename, pos, stack, hdr, masters, records,
                   records_by_formid, group_count, record_count, compressed_count,
                   type_counts, ret>>

\* identities asked of get_keyword_name
KeywordIdInputs == {7, 303265, 303266, 16777217, 83886080, 2147483647}

GetKeywordName ==
    /\ pc = "done"
    /\ \E f \in KeywordIdInputs :
         result' = [kind |-> "get_keyword_name", form_id |-> f,
                    name |-> get_keyword_name(f)]
    /\ pc' = "queried"
    /\ UNCHANGED <<other, vanilla_keywords, input, data, filter_types, filename, pos, stack, hdr, masters, records,
                   records_by_formid, group_count, record_count, compressed_count,
                   type_counts, ret>>

\* ' | '.join(get_keyword_name(kw) for kw in keywords)
RECURSIVE JoinKeywordNames(_)
JoinKeywordNames(kws) ==
    IF kws = <<>> THEN ""
    ELSE IF Len(kws) = 1 THEN get_keyword_name(kws[1])
    ELSE get_keyword_name(kws[1]) \o " | " \o JoinKeywordNames(Tail(kws))

\* the file an analysis names as the origin of a record: the expression of
\* overrides_master, source and source_master
SourceMaster(rec) ==
    IF master_index(rec) < Len(masters) THEN masters[master_index(rec) + 1]
    ELSE filename

\* one row of the flat dump of export_full_dump
AllRecordsRow(rec) ==
    [type |-> rec.type,
     form_id |-> form_id_hex(rec),
     form_id_resolved |-> resolve_formid_str(rec.form_id),
     editor_id |-> rec.editor_id,
     full_name |-> rec.full_name,
     is_override |-> master_index(rec) < Len(masters),
     source_master |-> SourceMaster(rec),
     keywords |-> JoinKeywordNames(rec.keywords),
     flags |-> FormatHex(rec.flags, 8),
     compressed |-> rec.is_compressed,
     subrecord_count |-> Len(rec.subrecords)]

all_records ==
    LET recs == RecordsInOrder(records, 1)
    IN  [i \in 1..Len(recs) |-> AllRecordsRow(recs[i])]

ExportFullDump ==
    /\ pc = "done"
    /\ result' = [kind |-> "export_full_dump", rows |-> all_records]
    /\ pc' = "queried"
    /\ UNCHANGED <<other, vanilla_keywords, input, data, filter_types, filename, pos, stack,
                   hdr, masters, records, records_by_formid, group_count, record_count,
                   compressed_count, type_counts, ret>>

AnalyzeOverrides ==
    /\ pc = "done"
    /\ result' = [kind |-> "analyze_overrides",
                  overrides |-> analyze_overrides.overrides,
                  new_records |-> analyze_overrides.new_records]
    /\ pc' = "queried"
    /\ UNCHANGED <<other, vanilla_keywords, input, data, filter_types, filename, pos, stack, hdr, masters, records,
                   records_by_formid, group_count, record_count, compressed_count,
                   type_counts, ret>>

(***************************************************************************)
(* Subrecord splitting on its own: a payload is built from a list of       *)
(* fields, each written plainly or behind an oversized-size escape, and    *)
(* the loop of _parse_record splits it.                                    *)
(***************************************************************************)
FieldBodies == {<<>>, <<7>>, <<1, 2, 3, 4, 5, 6, 7>>}

\* esc: no escape ("no"), or an escape carrying the true length while the
\* field's own 16-bit size holds 0 ("zero") or 1 ("one")
FieldSet == [sig : {B_DATA, B_EDID}, body : FieldBodies, esc : {"no", "zero", "one"}]

FieldBytes(f) ==
    IF f.esc = "no" THEN SubBytes(f.sig, f.body)
    ELSE EscSubBytes(f.sig, Len(f.body), IF f.esc = "zero" THEN 0 ELSE 1, f.body)

RECURSIVE FieldLists(_)
FieldLists(n) ==
    IF n = 0 THEN {<<>>}
    ELSE FieldLists(n - 1) \cup {Append(l, f) : l \in FieldLists(n - 1), f \in FieldSet}

RECURSIVE PayloadBytes(_)
PayloadBytes(l) == IF l = <<>> THEN <<>> ELSE FieldBytes(Head(l)) \o PayloadBytes(Tail(l))

InitSplit ==
    /\ other = NoParser
    /\ vanilla_keywords = VANILLA_WEAPON_KEYWORDS
    /\ input \in FieldLists(MaxFields)
    /\ data = PayloadBytes(input)
    /\ filter_types = FilterNone
    /\ filename = "Plugin.esp"
    /\ pc = "split"
    /\ ParserInit

SplitPayload ==
    /\ pc = "split"
    /\ result' = [kind |-> "split",
                  err |-> SplitSubrecords(data, 0, NoEscape, <<>>).err,
                  subs |-> SplitSubrecords(data, 0, NoEscape, <<>>).subs]
    /\ pc' = "split_done"
    /\ UNCHANGED <<other, vanilla_keywords, input, data, filter_types, filename, pos, stack, hdr, masters,
                   records, records_by_formid, group_count, record_count,
                   compressed_count, type_counts, ret>>

SpecSplit == InitSplit /\ [][SplitPayload]_vars

(***************************************************************************)
(* BinaryReader on its own: a reader over a short buffer on which any      *)
(* method is called at any time.  A call that raises leaves the reader as  *)
(* it was and the caller goes on.                                          *)
(***************************************************************************)
MaxRead == 4        \* largest length asked of read, read_string and skip

ReaderBuffers ==
    {<<>>, <<65>>, <<65, 66>>, <<75, 119, 0>>, <<84, 69, 83, 52>>,
     <<1, 2, 3, 4, 5>>, <<75, 0, 119, 0, 1, 0, 0, 1>>}

InitReader ==
    /\ other = NoParser
    /\ vanilla_keywords = VANILLA_WEAPON_KEYWORDS
    /\ input = <<>>
    /\ data \in ReaderBuffers
    /\ filter_types = FilterNone
    /\ filename = "Plugin.esp"
    /\ pc = "reader"
    /\ ParserInit

\* the call op (asking for n bytes) made at the cursor, and what it did
Called(op, n, r) ==
    /\ pc = "reader"
    /\ pos <= Len(data) + MaxRead
    /\ pos' = r.pos
    /\ result' = [kind |-> "read", op |-> op, n |-> n, at |-> pos,
                  err |-> r.err, value |-> r.value]
    /\ UNCHANGED <<other, vanilla_keywords, input, data, filter_types, filename, stack, pc, hdr, masters,
                   records, records_by_formid, group_count, record_count,
                   compressed_count, type_counts, ret>>

Read == \E n \in 0..MaxRead : Called("read", n, read(data, pos, n))
ReadUint8 == Called("read_uint8", 1, read_uint8(data, pos))
ReadUint16 == Called("read_uint16", 2, read_uint16(data, pos))
ReadUint32 == Called("read_uint32", 4, read_uint32(data, pos))
ReadInt32 == Called("read_int32", 4, read_int32(data, pos))
ReadFloat == Called("read_float", 4, read_float(data, pos))
ReadString == \E n \in 0..MaxRead : Called("read_string", n, read_string(data, pos, n))
ReadSig == Called("read_sig", 4, read_sig(data, pos))
Skip == \E n \in 0..MaxRead : Called("skip", n, skip(data, pos, n))

NextReader ==
    \/ Read \/ ReadUint8 \/ ReadUint16 \/ ReadUint32 \/ ReadInt32 \/ ReadFloat
    \/ ReadString \/ ReadSig \/ Skip

SpecReader == InitReader /\ [][NextReader]_vars

(***************************************************************************)
(* The decoder as a state machine.                                         *)
(***************************************************************************)
\* some GRUP envelope of the bytes d is pruned under the filter f and pruning it
\* leaves the cursor on it: the skip of line 392 goes back over the 24 bytes
\* read.  Once parse reaches such an envelope it calls _parse_group on it for
\* ever and group_count grows without bound.
HoldsStuckGroup(d, f) ==
    \E p \in 0..(Len(d) - HeaderSize) :
        /\ peek_sig(d, p) = "GRUP"
        /\ GroupIsSkipped(d, p, f)
        /\ SkipTarget(d, p) = p

\* The files and filters of Spec are those with no such envelope, on which
\* parse ends; SpecRun below follows parse on the others.
Init ==
    /\ other = NoParser
    /\ vanilla_keywords = VANILLA_WEAPON_KEYWORDS
    /\ input = <<>>
    /\ data \in Files \cup ExtraFiles
    /\ filter_types \in Filters
    /\ ~HoldsStuckGroup(data, filter_types)
    /\ filename = "Plugin.esp"
    /\ pc = "start"
    /\ ParserInit

ParseStep == ParseTes4 \/ ParseGroup \/ GroupReturn \/ ParseRecord \/ ParseDone

Next ==
    ParseStep \/ ResolveFormid \/ GetKeywordName \/ AnalyzeOverrides \/ ExportFullDump

Spec == Init /\ [][Next]_vars

(***************************************************************************)
(* The first steps of parse on any body after a header with no master,     *)
(* the bodies on which it never returns included: parse is followed for a  *)
(* chosen number of steps, MaxSteps at most.                               *)
(***************************************************************************)
RunFiles == {HeaderBytes(0) \o b : b \in Bodies(MaxItems)}

InitRun ==
    /\ other = NoParser
    /\ vanilla_keywords = VANILLA_WEAPON_KEYWORDS
    /\ input = <<>>
    /\ data \in RunFiles
    /\ filter_types \in Filters
    /\ filename = "Plugin.esp"
    /\ pc = "start"
    /\ ParserInit

RunSteps ==
    /\ pc = "start"
    /\ \E n \in 1..MaxSteps :
         \E s \in {RunFrom(NewParser(data, filter_types), n)} :
            /\ pos' = s.pos
            /\ stack' = s.stack
            /\ pc' = s.pc
            /\ hdr' = s.hdr
            /\ masters' = s.masters
            /\ records' = s.records
            /\ records_by_formid' = s.records_by_formid
            /\ group_count' = s.group_count
            /\ record_count' = s.record_count
            /\ compressed_count' = s.compressed_count
            /\ type_counts' = s.type_counts
            /\ ret' = s.ret
    /\ UNCHANGED <<other, vanilla_keywords, input, data, filter_types, filename, result>>

SpecRun == InitRun /\ [][RunSteps]_vars

(***************************************************************************)
(* Two instances.  batch_scan_directory constructs one ESPParser per file  *)
(* and hands each the same filter_types; here two of them decode different *)
(* files and their steps are taken in any order.                           *)
(***************************************************************************)
PairFiles ==
    {HeaderBytes(1) \o Grp(B_KYWD, 0, R_Kywd),
     HeaderBytes(0) \o Grp(B_WEAP, 0, R_Weap \o R_Comp) \o Grp(B_KYWD, 0, R_Kywd2),
     HeaderWith(<<2, 1>>) \o Grp(B_AMMO, 0, R_Ammo) \o Grp(B_KYWD, 0, R_Kywd \o R_Kywd2),
     HeaderBytes(1) \o Grp(B_KYWD, 0, R_Kywd \o R_Trunc)}

InitPair ==
    /\ input = <<>>
    /\ data \in PairFiles
    /\ filter_types \in {FilterNone, FilterSet({"KYWD"})}
    /\ filename = "Plugin.esp"
    /\ pc = "start"
    /\ ParserInit
    /\ other \in {NewParser(d, filter_types) : d \in PairFiles \ {data}}
    /\ vanilla_keywords = VANILLA_WEAPON_KEYWORDS

\* variant: type_counts is one dict that both instances use
OtherStepOf_SharedCounts(o) == StepOf([o EXCEPT !.type_counts = type_counts])

\* one step of the second instance's parse
OtherStepOf(o) == StepOf(o)

OtherStep ==
    /\ other.pc \in {"start", "parsing"}
    /\ \E n \in {OtherStepOf(other)} : other' = n
    /\ UNCHANGED <<vanilla_keywords, input, data, filter_types, filename, pos, stack, pc,
                   hdr, masters, records, records_by_formid, group_count, record_count,
                   compressed_count, type_counts, ret, result>>

NextPair == ParseStep \/ OtherStep

SpecPair == InitPair /\ [][NextPair]_vars

(***************************************************************************)
(* Properties.                                                             *)
(***************************************************************************)
\* C1: parse terminates on every file that starts with a TES4 header, for every
\* filter and whatever sizes the GRUP and record envelopes declare (a declared
\* GRUP size of 0 included): it returns or raises after finitely many steps.
\* A container/record step is a function of the buffer, the filter, the cursor,
\* the open groups and the control point, and the counters it also writes never
\* feed back into it; so when parse terminates no step leaves the cursor, the
\* open groups and the control point all as they were, for such a step is
\* followed by itself for ever.
C1_ParseTerminates ==
    (pc = "start" \/ pc = "parsing") =>
        \E n \in {StepOf(Self)} : <<n.pos, n.stack, n.pc>> # <<pos, stack, pc>>

StoredRecords == RecordsInOrder(records, 1)

\* C2: after parse with a non-empty interest set F, every record stored in
\* records and in records_by_formid has a type that is in F.
C2_OnlyRequestedTypes ==
    (pc = "done" /\ FilterActive(filter_types)) =>
        /\ \A i \in 1..Len(StoredRecords) : StoredRecords[i].type \in filter_types.types
        /\ \A i \in 1..Len(records_by_formid) :
             records_by_formid[i].val.type \in filter_types.types

\* the reader is on a type-0 GRUP whose label is absent from the non-empty
\* interest set, and the 24 bytes of its envelope are in the buffer
C3_PrunedGroupAhead ==
    /\ pc = "parsing"
    /\ LoopCond
    /\ peek_sig(data, pos) = "GRUP"
    /\ pos + HeaderSize <= Len(data)
    /\ UnpackI32(Slice(data, pos + 12, pos + 16)) = 0
    /\ filter_types.given
    /\ filter_types.types # {}
    /\ DecodeSig(Slice(data, pos + 8, pos + 12)) \notin filter_types.types

\* C3: a type-0 GRUP at p with declared size s whose label is not in the
\* non-empty interest set is skipped whole: no record inside it is parsed
\* (record_count, type_counts, records, records_by_formid unchanged), no error
\* is raised whatever its content holds, and the cursor is left at p + s.
C3_PrunedGroupIsSkipped ==
    [][C3_PrunedGroupAhead =>
          /\ pc' = "parsing"
          /\ pos' = pos + Unpack32(Slice(data, pos + 4, pos + 8))
          /\ record_count' = record_count
          /\ type_counts' = type_counts
          /\ records' = records
          /\ records_by_formid' = records_by_formid
          /\ stack' = stack]_vars

\* a pruned group whose content would raise if it were parsed ends at the cursor
C3_Witness ==
    /\ pc = "parsing"
    /\ stack = <<>>
    /\ group_count >= 1
    /\ record_count = 0
    /\ FilterActive(filter_types)
    /\ \E p \in 0..(pos - 1) :
         /\ p + HeaderSize < pos
         /\ pos <= Len(data)
         /\ peek_sig(data, p) = "GRUP"
         /\ GroupIsSkipped(data, p, filter_types)
         /\ p + group_size_at(data, p) = pos
         /\ parse_record(data, p + HeaderSize).err

\* C4: while _parse_group walks a GRUP at p with declared size s, no child
\* consumes bytes at or beyond content_end = p + s, and when _parse_group
\* returns the cursor is at p + s (or at the end of a shorter buffer).
C4_NeverPastContentEnd ==
    [][/\ \A i \in 1..Len(stack') :
            stack'[i].size >= HeaderSize => pos' <= stack'[i].end_pos
       /\ (Len(stack') < Len(stack) /\ TopFrame.size >= HeaderSize)
            => pos' = Min(TopFrame.end_pos, Len(data))]_vars

ExpectedSubs(l) == [i \in 1..Len(l) |-> [type |-> DecodeSig(l[i].sig), data |-> l[i].body]]

\* C5: an oversized-size escape carrying N yields no subrecord itself and gives
\* exactly the next subrecord the length N in place of its 16-bit size; the
\* subrecords after that one use their own 16-bit size again.  So a payload
\* built from a list of fields splits into exactly those fields.
C5_EscapeSizesNextOnly ==
    pc = "split_done" => (~result.err /\ result.subs = ExpectedSubs(input))

\* an escaped 7-byte field whose own size says 1, then a plain field
C5_Witness ==
    /\ pc = "split_done"
    /\ Len(input) = 2
    /\ input[1].esc = "one"
    /\ Len(input[1].body) = 7
    /\ input[2].esc = "no"
    /\ Len(result.subs) = 2
    /\ result.subs[1].data = input[1].body
    /\ result.subs[2].data = input[2].body

\* the record the last _parse_record call returned ends at the cursor
LastStart == pos - HeaderSize - ret.rec.data_size
LastRecordAtCursor ==
    /\ pc \in {"parsing", "done"}
    /\ ret.kind = "rec"
    /\ LastStart >= 0
    /\ pos <= Len(data)
    /\ DecodeSig(Slice(data, LastStart, LastStart + 4)) = ret.rec.type
    /\ Slice(data, LastStart + 4, LastStart + 8) = U32(ret.rec.data_size)
    /\ Slice(data, LastStart + 12, LastStart + 16) = U32(ret.rec.form_id)
LastCompressed ==
    LastRecordAtCursor /\ ret.rec.is_compressed /\ ret.rec.data_size >= 4
LastHint == Unpack32(Slice(data, LastStart + HeaderSize, LastStart + HeaderSize + 4))
LastInflate == ZlibDecompress(Slice(data, LastStart + HeaderSize + 4, pos), LastHint)
IsStored(rec) ==
    /\ DictHas(records, rec.type)
    /\ \E i \in 1..Len(DictGet(records, rec.type)) : DictGet(records, rec.type)[i] = rec
    /\ DictHas(records_by_formid, rec.form_id)
    /\ DictGet(records_by_formid, rec.form_id) = rec

\* C6: a compressed record whose decompression fails is still present in
\* records[type] and records_by_formid, with no subrecords and no keywords.
C6_FailedRecordIsKept ==
    (LastCompressed /\ ~LastInflate.ok) =>
        (IsStored(ret.rec) /\ ret.rec.subrecords = <<>> /\ ret.rec.keywords = <<>>)

\* C7: the payload of a compressed record with size hint S that is split into
\* subrecords has length exactly S; inflated data of another length makes the
\* record a decompression failure, with no subrecords.
C7_InflatedLengthIsHint ==
    (LastCompressed /\ LastInflate.ok /\ Len(LastInflate.out) # LastHint) =>
        ret.rec.subrecords = <<>>

HexAt(n, k) == HexDigitsUpper[((n \div (16 ^ k)) % 16) + 1]
Hex6(n) == HexAt(n, 5) \o HexAt(n, 4) \o HexAt(n, 3) \o HexAt(n, 2) \o HexAt(n, 1) \o HexAt(n, 0)

\* C8: resolve_formid(f), with i the high byte and local the low 24 bits of f,
\* returns (masters[i], local as 6 hex digits) when i < len(masters), (the
\* file's own name, local) when i = len(masters), and an unknown-master
\* placeholder naming i otherwise.  With masters [A.esm, B.esm]: 0x01000001
\* gives (B.esm, 000001), 0x02000005 (self, 000005), 0x05000000 the placeholder.
C8_ResolveFormid ==
    (pc = "queried" /\ result.kind = "resolve_formid") =>
        LET i == (result.form_id \div 16777216) % 256
            local == result.form_id % 16777216
            ab == masters = <<"A.esm", "B.esm">>
        IN  /\ result.value[2] = Hex6(local)
            /\ i < Len(masters) => result.value[1] = masters[i + 1]
            /\ i = Len(masters) => result.value[1] = filename
            /\ i > Len(masters) =>
                 result.value[1] = "UNKNOWN_MASTER_" \o HexAt(i, 1) \o HexAt(i, 0)
            /\ (ab /\ result.form_id = 16777217) => result.value = <<"B.esm", "000001">>
            /\ (ab /\ result.form_id = 33554437) => result.value = <<"Plugin.esp", "000005">>
            /\ (ab /\ result.form_id = 83886080) =>
                 result.value = <<"UNKNOWN_MASTER_05", "000000">>

C8_Witness ==
    /\ pc = "queried"
    /\ result.kind = "resolve_formid"
    /\ masters = <<"A.esm", "B.esm">>
    /\ result.form_id = 16777217
    /\ result.value = <<"B.esm", "000001">>

Analyzed == pc = "queried" /\ result.kind = "analyze_overrides"
RecordId(rec) == <<rec.type, form_id_hex(rec), rec.editor_id>>
RecordIds == [j \in 1..Len(StoredRecords) |-> RecordId(StoredRecords[j])]
OverrideIds ==
    LET es == RecordsInOrder(result.overrides, 1)
    IN  [j \in 1..Len(es) |-> <<es[j].type, es[j].form_id, es[j].editor_id>>]
RECURSIVE NewIdsFrom(_)
NewIdsFrom(i) ==
    IF i > Len(result.new_records) THEN <<>>
    ELSE LET b == result.new_records[i]
         IN  [j \in 1..Len(b.val) |-> <<b.key, b.val[j].form_id, b.val[j].editor_id>>]
             \o NewIdsFrom(i + 1)
NewIds == NewIdsFrom(1)
Count(seq, x) == Cardinality({j \in 1..Len(seq) : seq[j] = x})
IdsOf(seq) == {seq[j] : j \in 1..Len(seq)}

\* C9: analyze_overrides puts every stored record in exactly one bucket: each
\* record appears exactly once across all lists of overrides and new_records
\* together and none is left out, whatever its addressing index.
C9_EveryRecordInOneBucket ==
    Analyzed =>
        \A x \in IdsOf(RecordIds) \cup IdsOf(OverrideIds) \cup IdsOf(NewIds) :
            Count(OverrideIds, x) + Count(NewIds, x) = Count(RecordIds, x)

\* an override, a new record and a record of an unknown master were analysed
C9_Witness ==
    /\ Analyzed
    /\ \E j \in 1..Len(StoredRecords) : master_index(StoredRecords[j]) < Len(masters)
    /\ \E j \in 1..Len(StoredRecords) : master_index(StoredRecords[j]) = Len(masters)
    /\ \E j \in 1..Len(StoredRecords) : master_index(StoredRecords[j]) > Len(masters)

InOverridesOf(master, x) ==
    /\ DictHas(result.overrides, master)
    /\ \E j \in 1..Len(DictGet(result.overrides, master)) :
         LET e == DictGet(result.overrides, master)[j]
         IN  <<e.type, e.form_id, e.editor_id>> = x
InNewRecordsOf(type, x) ==
    /\ DictHas(result.new_records, type)
    /\ \E j \in 1..Len(DictGet(result.new_records, type)) :
         LET e == DictGet(result.new_records, type)[j]
         IN  <<type, e.form_id, e.editor_id>> = x

\* C10: a record is listed under overrides[masters[k]] exactly when its
\* addressing index k is < len(masters) and under new_records[its type]
\* exactly when k = len(masters); with k > len(masters) it is in neither.
C10_ForeignInNoBucket ==
    Analyzed =>
        \A j \in 1..Len(StoredRecords) :
            LET rec == StoredRecords[j]
                k == master_index(rec)
            IN  /\ k < Len(masters) => InOverridesOf(masters[k + 1], RecordId(rec))
                /\ InNewRecordsOf(rec.type, RecordId(rec)) <=> k = Len(masters)
                /\ k >= Len(masters) =>
                     \A m \in DictKeys(result.overrides) : ~InOverridesOf(m, RecordId(rec))

\* C11: when the first four bytes of the file are not the TES4 signature, parse
\* aborts with an error before any group or record is decoded: masters, records,
\* records_by_formid and every counter keep their initial empty or zero value.
C11_BadSignatureAborts ==
    (pc # "start" /\ DecodeSig(Slice(data, 0, 4)) # "TES4") =>
        /\ pc = "error"
        /\ masters = <<>>
        /\ records = <<>>
        /\ records_by_formid = <<>>
        /\ type_counts = <<>>
        /\ group_count = 0
        /\ record_count = 0
        /\ compressed_count = 0

\* a file that holds a sound header block and a group behind a wrong signature
C11_Witness ==
    /\ pc = "error"
    /\ DecodeSig(Slice(data, 0, 4)) = "TES3"
    /\ Len(data) > 2 * HeaderSize
    /\ peek_sig(data, Len(data) - 57) = "GRUP"
    /\ masters = <<>>

StartsWith(d, h) == Len(d) >= Len(h) /\ SubSeq(d, 1, Len(h)) = h

\* C12: when the field block of the TES4 header holds no HEDR field, the decode
\* aborts with an error instead of going on to the groups with the default
\* version, record count and next id.
C12_MissingHedrAborts ==
    (pc # "start" /\ StartsWith(data, HeaderNoHedr)) => pc = "error"

\* the reader is on a record whose 24-byte envelope is in the buffer and
\* declares more payload than the bytes that follow it
C13_TruncatedAhead ==
    /\ pc = "parsing"
    /\ LoopCond
    /\ peek_sig(data, pos) # "GRUP"
    /\ Len(data) - pos >= HeaderSize
    /\ Unpack32(Slice(data, pos + 4, pos + 8)) > Len(data) - (pos + HeaderSize)

\* C13: a record whose envelope declares more payload than the buffer holds is
\* not added to records or records_by_formid and the cursor goes to the end of
\* the buffer; from there no further record or container is decoded (every
\* loop exits), no error is raised and the records stored earlier are intact.
C13_TruncatedStopsDecode ==
    [][/\ C13_TruncatedAhead =>
            /\ pos' = Len(data)
            /\ pc' = "parsing"
            /\ records' = records
            /\ records_by_formid' = records_by_formid
       /\ (pc = "parsing" /\ pos = Len(data)) =>
            /\ pc' \in {"parsing", "done"}
            /\ pos' = pos
            /\ records' = records
            /\ records_by_formid' = records_by_formid
            /\ record_count' = record_count
            /\ group_count' = group_count
            /\ Len(stack') <= Len(stack)]_vars

\* parse has returned after dropping a truncated record that followed a group
\* whose record is stored
C13_Witness ==
    /\ pc = "done"
    /\ ret = ReturnNone
    /\ pos = Len(data)
    /\ DictHas(records, "KYWD")
    /\ record_count > Len(StoredRecords)
    /\ Len(data) >= 26 + HeaderSize
    /\ Slice(data, Len(data) - 26, Len(data)) = R_Trunc

\* what a caller holds after parse: the attributes of the parser object
Observable(s) ==
    <<s.pc, s.hdr, s.masters, s.records, s.records_by_formid, s.group_count,
      s.record_count, s.compressed_count, s.type_counts>>

\* the next _parse_record call drops its record: fewer than 24 bytes are left
\* for the envelope, or the envelope declares more payload than remains
C14_DropAhead ==
    /\ pc = "parsing"
    /\ LoopCond
    /\ peek_sig(data, pos) # "GRUP"
    /\ \/ Len(data) - pos < HeaderSize
       \/ Unpack32(Slice(data, pos + 4, pos + 8)) > Len(data) - (pos + HeaderSize)

\* C14: after a decode that dropped a record as truncated, what the caller holds
\* shows that the decode is incomplete: it differs from what the caller holds
\* after the complete decode of the file that ends where the dropped record
\* begins.
C14_IncompleteIsObservable ==
    C14_DropAhead =>
        LET whole == RunFrom(Self, MaxSteps)
            cut == RunFrom(NewParser(Slice(data, 0, pos), filter_types), MaxSteps)
        IN  (whole.pc = "done" /\ cut.pc = "done") => Observable(whole) # Observable(cut)

\* the decode computed by RunFrom is the decode the actions take
\* every step the actions take is the step StepOf computes
StepMatchesActions ==
    [][(pc = "start" \/ pc = "parsing") => (Self' = StepOf(Self))]_vars

RunMatchesActions ==
    pc \in {"done", "error"} => Self = RunFrom(NewParser(data, filter_types), MaxSteps)

\* the reader is on a record whose envelope is consistent with the buffer
C15_SoundEnvelopeAhead ==
    /\ pc = "parsing"
    /\ LoopCond
    /\ peek_sig(data, pos) # "GRUP"
    /\ Len(data) - pos >= HeaderSize
    /\ Unpack32(Slice(data, pos + 4, pos + 8)) <= Len(data) - (pos + HeaderSize)

\* C15: decoding a record whose envelope is consistent with the buffer never
\* raises, whatever its payload holds (a payload that ends inside a subrecord
\* header, a subrecord body or an oversized-size escape included): the decode
\* goes on with the record's siblings.
C15_PayloadNeverRaises ==
    [][C15_SoundEnvelopeAhead => pc' = "parsing"]_vars

KeywordAsked == pc = "queried" /\ result.kind = "get_keyword_name"
IndexedUnder(f) == {i \in 1..Len(records_by_formid) : records_by_formid[i].key = f}
TableRows(f) ==
    {i \in 1..Len(VANILLA_WEAPON_KEYWORDS) : VANILLA_WEAPON_KEYWORDS[i].key = f}

\* C16: get_keyword_name(f) returns the editor id of the record indexed under f
\* when there is one and its editor id is not empty; otherwise the entry of the
\* static table for f when there is one; otherwise the resolve_formid string
\* "file|local".  So 0x0004A0A2 gives WeaponTypeRifle unless a decoded record
\* with an editor id carries that identity.
C16_KeywordNamePriority ==
    KeywordAsked =>
        LET f == result.form_id
            named == {i \in IndexedUnder(f) : records_by_formid[i].val.editor_id # ""}
            i == (f \div 16777216) % 256
            owner == IF i < Len(masters) THEN masters[i + 1]
                     ELSE IF i = Len(masters) THEN filename
                     ELSE "UNKNOWN_MASTER_" \o HexAt(i, 1) \o HexAt(i, 0)
        IN  /\ Cardinality(IndexedUnder(f)) <= 1
            /\ \A k \in named : result.name = records_by_formid[k].val.editor_id
            /\ (named = {}) =>
                 \A k \in TableRows(f) : result.name = VANILLA_WEAPON_KEYWORDS[k].val
            /\ (named = {} /\ TableRows(f) = {}) =>
                 result.name = owner \o "|" \o Hex6(f % 16777216)
            /\ (f = 303266 /\ named = {}) => result.name = "WeaponTypeRifle"
            /\ (f = 303265 /\ named = {}) => result.name = "WeaponTypePistol"

\* a decoded record with an editor id carries an identity of the static table
C16_Witness ==
    /\ KeywordAsked
    /\ result.form_id = 303266
    /\ IndexedUnder(303266) # {}
    /\ result.name = "V"

ListOf(d, k) == IF DictHas(d, k) THEN DictGet(d, k) ELSE <<>>

\* C17: storing a record appends it to records[its type], leaving every other
\* list as it was, and makes records_by_formid map its identity to it, so of
\* several records with one identity the index holds the last in file order
\* while all of them stay in their by-type lists in file order; and after every
\* step each entry of records_by_formid is an element of records[its type].
C17_LastWinsAllKept ==
    [][/\ \A i \in 1..Len(records_by_formid') :
            LET r == records_by_formid'[i].val
            IN  \E j \in 1..Len(ListOf(records', r.type)) : ListOf(records', r.type)[j] = r
       /\ (records' # records \/ records_by_formid' # records_by_formid) =>
            /\ ret'.kind = "rec"
            /\ ListOf(records', ret'.rec.type) =
                 Append(ListOf(records, ret'.rec.type), ret'.rec)
            /\ \A t \in DictKeys(records) \ {ret'.rec.type} :
                 ListOf(records', t) = ListOf(records, t)
            /\ DictKeys(records') = DictKeys(records) \cup {ret'.rec.type}
            /\ ListOf(records_by_formid', ret'.rec.form_id) = ret'.rec
            /\ \A f \in DictKeys(records_by_formid) \ {ret'.rec.form_id} :
                 ListOf(records_by_formid', f) = ListOf(records_by_formid, f)
            /\ DictKeys(records_by_formid') =
                 DictKeys(records_by_formid) \cup {ret'.rec.form_id}]_vars

\* two KYWD records with identity 0x01000001 were decoded, "Kw" before "K2"
C17_Witness ==
    /\ pc = "done"
    /\ Len(ListOf(records, "KYWD")) = 2
    /\ ListOf(records, "KYWD")[1].form_id = 16777217
    /\ ListOf(records, "KYWD")[1].editor_id = "Kw"
    /\ ListOf(records, "KYWD")[2].form_id = 16777217
    /\ ListOf(records, "KYWD")[2].editor_id = "K2"
    /\ DictGet(records_by_formid, 16777217).editor_id = "K2"

MasterNames == <<"A.esm", "B.esm", "C.esm", "D.esm">>
MasterLists == {[i \in 1..m |-> i] : m \in 0..MaxMasters} \cup MasterOrders

\* C18: decoding the header leaves in masters exactly the names of its MAST
\* fields in their order of appearance, duplicates kept, so masters[i] is the
\* file addressing index i refers to; no later step changes masters.
C18_MastersInHeaderOrder ==
    [][/\ (pc = "start" /\ pc' = "parsing") =>
            \A ms \in MasterLists :
                StartsWith(data, HeaderWith(ms)) =>
                    masters' = [i \in 1..Len(ms) |-> MasterNames[ms[i]]]
       /\ pc # "start" => masters' = masters]_vars

\* a header naming B.esm twice and then A.esm was decoded and a record stored
C18_Witness ==
    /\ pc = "done"
    /\ StartsWith(data, HeaderWith(<<2, 2, 1>>))
    /\ masters = <<"B.esm", "B.esm", "A.esm">>
    /\ records # <<>>

ReadOps ==
    {"read", "read_uint8", "read_uint16", "read_uint32", "read_int32",
     "read_float", "read_string", "read_sig"}

\* C19: a read that asks for more bytes than remaining() raises, and does
\* not carry a cursor that was inside the buffer beyond its end.
C19_ReadPastEndFails ==
    (/\ pc = "reader"
     /\ result.kind = "read"
     /\ result.op \in ReadOps
     /\ result.n > remaining(data, result.at))
        => /\ result.err
           /\ result.at <= Len(data) => pos <= Len(data)

\* the decode of file d with filter f by an instance running alone
AloneRun(d, f) == RunFrom(NewParser(d, f), MaxSteps)
OnAloneRun(s) ==
    \E k \in 0..MaxSteps : s = RunFrom(NewParser(s.data, s.filter_types), k)
IsOver(s) == s.pc \notin {"start", "parsing"}

C20_EachAsAlone ==
    /\ OnAloneRun(Self)
    /\ OnAloneRun(other)
    /\ IsOver(Self) => Self = AloneRun(data, filter_types)
    /\ IsOver(other) => other = AloneRun(other.data, other.filter_types)
    /\ vanilla_keywords = VANILLA_WEAPON_KEYWORDS

\* C20: with the steps of two instances on different files taken in any
\* order, every state of each instance is a state of its decode run alone
\* and each ends with the masters, records, index and counters of that run;
\* a step of one instance leaves the other as it was, and the table
\* VANILLA_WEAPON_KEYWORDS keeps its contents.
C20_InstancesIsolated ==
    /\ []C20_EachAsAlone
    /\ [][other' = other \/ Self' = Self]_vars

\* both instances returned, each having stored records of its own file
C20_Witness ==
    /\ pc = "done" /\ other.pc = "done"
    /\ data # other.data
    /\ records # <<>> /\ other.records # <<>>
    /\ records # other.records
    /\ other.type_counts # type_counts
    /\ Self = AloneRun(data, filter_types)

\* the records of the input family whose split is cut short, each with the
\* fields that lie wholly inside its payload
OverrunCases ==
    {[bytes |-> R_Over, form_id |-> 33554450,
      kept |-> <<[type |-> "EDID", data |-> <<79, 0>>],
                 [type |-> "DATA", data |-> <<5>>]>>],
     [bytes |-> R_OverEsc, form_id |-> 33554451,
      kept |-> <<[type |-> "EDID", data |-> <<80, 0>>]>>]}

RecordAhead(b) ==
    /\ pc = "parsing"
    /\ LoopCond
    /\ peek_sig(data, pos) # "GRUP"
    /\ StartsWith(Slice(data, pos, Len(data)), b)

\* C21: when a field's effective size (its 16-bit size, or the pending
\* escape value) exceeds what is left of the payload, the split stops there:
\* the record keeps exactly the fields read before it, in order, is stored
\* in records and in records_by_formid, and the decode goes on at the next
\* record without an error.
C21_OverrunKeepsPrefix ==
    [][\A c \in OverrunCases :
          RecordAhead(c.bytes) =>
            /\ pc' = "parsing"
            /\ pos' = pos + Len(c.bytes)
            /\ ret'.kind = "rec"
            /\ ret'.rec.subrecords = c.kept
            /\ records' = DictAppend(records, "WEAP", ret'.rec)
            /\ DictHas(records_by_formid', c.form_id)
            /\ DictGet(records_by_formid', c.form_id) = ret'.rec]_vars

\* parse has returned; the record cut short by an escape value and the
\* record after it are both stored
C21_Witness ==
    /\ pc = "done"
    /\ DictHas(records, "WEAP")
    /\ Len(DictGet(records, "WEAP")) = 2
    /\ DictGet(records, "WEAP")[1].form_id = 33554451
    /\ DictGet(records, "WEAP")[1].subrecords = <<[type |-> "EDID", data |-> <<80, 0>>]>>
    /\ DictGet(records, "WEAP")[2].form_id = 33554437

\* the payload stored under a field type that occurred once
RawOne(rec, k) == rec.raw_data[RawIndex(rec.raw_data, k)].val
HasOne(rec, k) == RawHas(rec.raw_data, k) /\ ~rec.raw_data[RawIndex(rec.raw_data, k)].list

\* C22: a stored record with a 4-byte KSIZ field of value N and a KWDA field
\* has exactly N keywords, the first N 32-bit values of the KWDA payload.
C22_KsizIsAuthoritative ==
    \A i \in 1..Len(StoredRecords) :
        LET rec == StoredRecords[i]
        IN  (/\ HasOne(rec, "KSIZ") /\ HasOne(rec, "KWDA")
             /\ Len(RawOne(rec, "KSIZ")) = 4
             /\ 4 * Unpack32(RawOne(rec, "KSIZ")) <= Len(RawOne(rec, "KWDA")))
            => /\ Len(rec.keywords) = Unpack32(RawOne(rec, "KSIZ"))
               /\ \A k \in 1..Len(rec.keywords) :
                     rec.keywords[k] = Unpack32(Slice(RawOne(rec, "KWDA"), 4 * (k - 1), 4 * k))

\* the payloads of the fields of type t, in their order in subs
RECURSIVE PayloadsOf(_, _)
PayloadsOf(subs, t) ==
    IF subs = <<>> THEN <<>>
    ELSE (IF Head(subs).type = t THEN <<Head(subs).data>> ELSE <<>>)
         \o PayloadsOf(Tail(subs), t)

\* C23: the editor id of a stored record that holds EDID fields is the text
\* of the first of them.
C23_EditorIdIsFirstEdid ==
    \A i \in 1..Len(StoredRecords) :
        LET rec == StoredRecords[i]
            edids == PayloadsOf(rec.subrecords, "EDID")
        IN  edids # <<>> => rec.editor_id = StrOf(RStripNul(edids[1]))

\* C24: for every field type that occurs k times in a stored record,
\* raw_data holds under that type all k payloads in their order: the payload
\* itself when k = 1, the list of the k payloads when k >= 2; raw_data has
\* no other key.
C24_RawDataKeepsAll ==
    \A i \in 1..Len(StoredRecords) :
        LET rec == StoredRecords[i]
            types == {rec.subrecords[j].type : j \in 1..Len(rec.subrecords)}
        IN  /\ {rec.raw_data[j].key : j \in 1..Len(rec.raw_data)} = types
            /\ \A j, k \in 1..Len(rec.raw_data) :
                  rec.raw_data[j].key = rec.raw_data[k].key => j = k
            /\ \A t \in types :
                  LET all == PayloadsOf(rec.subrecords, t)
                      e == rec.raw_data[RawIndex(rec.raw_data, t)]
                  IN  IF Len(all) = 1 THEN ~e.list /\ e.val = all[1]
                      ELSE e.list /\ e.val = all

\* parse has returned with a stored record whose three DATA payloads are all
\* in raw_data in order, next to its two EDID payloads
C24_Witness ==
    /\ pc = "done"
    /\ \E i \in 1..Len(StoredRecords) :
         LET rec == StoredRecords[i]
         IN  /\ rec.form_id = 33554453
             /\ RawHas(rec.raw_data, "DATA")
             /\ rec.raw_data[RawIndex(rec.raw_data, "DATA")].val = <<<<1>>, <<2, 2>>, <<3>>>>
             /\ rec.raw_data[RawIndex(rec.raw_data, "EDID")].val = <<<<70, 49, 0>>, <<83, 50, 0>>>>

\* C25: a field of a type the header decoder has no branch for, put at any
\* place of the header's field block, is stepped over by its declared
\* length: version, num_records, next_object_id, author, description, the
\* flags and masters are those of the file without it, and so are the
\* records, the index and the counters once the decode has stopped.
C25_UnknownHeaderFieldSkipped ==
    \A c \in InsertCases :
        (data = WithInsert(c) /\ pc # "start") =>
            LET base == AloneRun(WithoutInsert, filter_types)
            IN  /\ hdr = base.hdr
                /\ masters = base.masters
                /\ IsOver(Self) =>
                      /\ (pc = "error") = (base.pc = "error")
                      /\ records = base.records
                      /\ records_by_formid = base.records_by_formid
                      /\ group_count = base.group_count
                      /\ record_count = base.record_count
                      /\ compressed_count = base.compressed_count
                      /\ type_counts = base.type_counts
                      /\ pos = base.pos + Len(c.f)

\* parse has returned on a header with a four-byte INTV field between the
\* author and the first master, with both groups decoded
C25_Witness ==
    /\ pc = "done"
    /\ data = WithInsert([k |-> 2, f |-> SubBytes(B_INTV, <<1, 2, 3, 4>>)])
    /\ masters = <<"A.esm">>
    /\ hdr.author = "me"
    /\ hdr.num_records = 2
    /\ group_count = 2
    /\ DictHas(records, "WEAP") /\ DictHas(records, "KYWD")

\* C26: when _parse_tes4 returns, the cursor is at 24 + the data size the
\* header's envelope declares, whatever sizes the fields of the block carry.
C26_CursorAfterHeaderBlock ==
    [][(pc = "start" /\ pc' = "parsing") =>
          pos' = HeaderSize + Unpack32(Slice(data, 4, 8))]_vars

\* C27: no step of parse (_parse_tes4, a _parse_group call up to its loop,
\* pruning or descending, the return of a _parse_group, a _parse_record
\* call, the return of parse) leaves the cursor before the place it had when
\* the step began, whatever sizes the envelopes declare.
C27_CursorNeverDecreases ==
    (pc = "start" \/ pc = "parsing") => StepOf(Self).pos >= pos

\* a pruned group that declares fewer than 24 bytes is ahead after groups
\* were counted: pruning it puts the cursor back on it
C27_Witness ==
    /\ pc = "parsing"
    /\ group_count >= 2
    /\ LoopCond
    /\ peek_sig(data, pos) = "GRUP"
    /\ ~GroupEnvelopeError(data, pos)
    /\ GroupIsSkipped(data, pos, filter_types)
    /\ group_size_at(data, pos) < HeaderSize
    /\ SkipTarget(data, pos) = pos

RECURSIVE DictSum(_)
DictSum(d) == IF d = <<>> THEN 0 ELSE Head(d).val + DictSum(Tail(d))

\* C28: in every state of parse record_count is the sum of type_counts,
\* type_counts[t] is the number of records in records[t] for every type t of
\* either dict, and compressed_count is at most record_count.
C28_CountsAgreeWithStore ==
    /\ record_count = DictSum(type_counts)
    /\ compressed_count <= record_count
    /\ \A t \in DictKeys(type_counts) \cup DictKeys(records) :
          /\ DictHas(type_counts, t) /\ DictHas(records, t)
          /\ DictGet(type_counts, t) = Len(DictGet(records, t))

\* C29: for every stored record the file the flat dump names as its source
\* is the source name resolve_formid returns for the record's identity.
C29_SourceAgreesWithResolve ==
    (pc = "queried" /\ result.kind = "export_full_dump") =>
        \A i \in 1..Len(StoredRecords) :
            result.rows[i].source_master = resolve_formid(StoredRecords[i].form_id)[1]

C30_SameAsNoFilter ==
    (filter_types = FilterSet({}) /\ IsOver(Self)) =>
        LET base == AloneRun(data, FilterNone)
        IN  /\ (pc = "error") = (base.pc = "error")
            /\ pos = base.pos
            /\ hdr = base.hdr
            /\ masters = base.masters
            /\ records = base.records
            /\ records_by_formid = base.records_by_formid
            /\ group_count = base.group_count
            /\ record_count = base.record_count
            /\ compressed_count = base.compressed_count
            /\ type_counts = base.type_counts

\* C30: parse with the empty set as filter_types prunes no group (every
\* _parse_group call goes on to the group's content) and stops with the
\* records, the index, the counters and the cursor of parse with no filter.
C30_EmptyFilterIsNoFilter ==
    /\ []C30_SameAsNoFilter
    /\ [][(/\ filter_types = FilterSet({})
           /\ pc = "parsing" /\ LoopCond /\ peek_sig(data, pos) = "GRUP"
           /\ ~GroupEnvelopeError(data, pos))
          => (pos' = pos + HeaderSize /\ Len(stack') = Len(stack) + 1)]_vars

\* parse with the empty set has returned with two top-level groups decoded
\* and records of two types stored
C30_Witness ==
    /\ pc = "done"
    /\ filter_types = FilterSet({})
    /\ group_count >= 2
    /\ Len(records) >= 2
    /\ records = AloneRun(data, FilterNone).records

====
